---- MODULE Spec2Model ----
(***************************************************************************)
(* A model of the metrics collection pipeline of instrumentation-score:    *)
(* the Prometheus client (internal/collectors/prometheus.go) and the       *)
(* collection orchestrator (internal/collectors/collector.go).             *)
(*                                                                         *)
(* Spec        one CollectMetrics run: the goroutines of                   *)
(*             fetchJobMetricData and getJobMetricDataForMetric, their     *)
(*             semaphores, wait groups, mutexes and accumulators.          *)
(* SpecClient  one call of a client operation: the retry loop of           *)
(*             doRequestWithRetry, one transport attempt per step, and the *)
(*             operation's handling of the response it gets back.          *)
(***************************************************************************)
EXTENDS Integers, Sequences, FiniteSets, TLC

\* ------------------------------------------------------------------ bounds

\* Each semaphore width is drawn from 1..MaxWidth and the retry count from
\* 0..MaxRetry.
MaxWidth == 2
MaxRetry == 2

MetricIds == {1, 2}
JobIds == {1, 2}

\* --------------------------------------------------------------- variables

VARIABLES
    \* Collector fields
    maxConcurrentMetrics, maxConcurrentJobs, maxConcurrentLabelCardinality,
    collectLabelCardinality,
    \* CollectMetrics / fetchJobMetricData
    mainPc, catalogFetch, metricNames, nextMetric, sem, wg, processed,
    errors, errorsMu, allData, dataMu,
    retData, retErrors, retErr,
    \* one goroutine per metric (fetchJobMetricData) running
    \* getJobMetricDataForMetric, and its phase-1 and phase-2 goroutines
    mt, t1, t2,
    \* the operations the run has called the client for so far
    requests,
    \* one client call (SpecClient)
    call,
    \* one run of the rule engine or of the evaluate command (SpecRule,
    \* SpecScore, SpecFilter, SpecLabels, SpecEvaluate)
    ev

cfgVars == <<maxConcurrentMetrics, maxConcurrentJobs,
             maxConcurrentLabelCardinality, collectLabelCardinality>>
mainVars == <<mainPc, catalogFetch, metricNames, nextMetric>>
accVars == <<errors, errorsMu, allData, dataMu>>
retVars == <<retData, retErrors, retErr>>
collectorVars == <<cfgVars, mainVars, sem, wg, processed, accVars, retVars,
                   mt, t1, t2, requests>>
nonCollectorVars == <<call, ev>>
nonClientVars == <<collectorVars, ev>>
vars == <<collectorVars, call, ev>>

\* ------------------------------------------------------- sequence helpers

Range(s) == {s[i] : i \in 1..Len(s)}

\* ================================================================ client

\* HTTP statuses the backend may answer with: success, another 2xx, a
\* permanent 4xx, the rate limit, a 5xx that is not retried, and the three
\* retried ones.
StatusOK == 200
StatusTooManyRequests == 429
Statuses == {200, 204, 404, 429, 500, 502, 503, 504}

Is2xx(status) == status >= 200 /\ status < 300

\* A loop that retries every 5xx.
IsRetriedAny5xx(status) == status >= 500

IsRetried(status) == status = 502 \/ status = 503 \/ status = 504

\* One transport attempt (http.Client.Do): a network-level failure, or a
\* response with a status and a body that does (json) or does not decode.
\* The body of a 502/503/504 is closed unread, so one body stands for all.
NetErr == [err |-> TRUE, status |-> 0, json |-> FALSE]
Outcomes == {NetErr} \cup
            {[err |-> FALSE, status |-> s, json |-> b] :
                s \in Statuses \ {502, 503, 504}, b \in BOOLEAN} \cup
            {[err |-> FALSE, status |-> s, json |-> FALSE] : s \in {502, 503, 504}}

Transient(o) == o.err \/ IsRetried(o.status)

\* What doRequestWithRetry hands back: an error and no response, or a
\* response; the body of a response whose status is 502/503/504 was closed
\* by the loop before it was returned.
RetryError == [err |-> TRUE, status |-> 0, json |-> FALSE, closed |-> FALSE]

RetryResponse(o) ==
    [err |-> FALSE, status |-> o.status, json |-> o.json,
     closed |-> IsRetried(o.status)]

RetryReturns == {RetryError} \cup {RetryResponse(o) : o \in Outcomes \ {NetErr}}

\* The backend did not deliver what was asked for: the transport failed, the
\* status is not a 2xx one, or the body cannot be read or decoded.
FetchFailed(r) == r.err \/ ~Is2xx(r.status) \/ r.closed \/ ~r.json

\* A client operation's result: an error, or a value.
OpErr(zero, slept) == [err |-> TRUE, val |-> zero, slept |-> slept]
OpOk(val) == [err |-> FALSE, val |-> val, slept |-> FALSE]

\* GetAllMetricNames: no status check; the body is decoded whatever the
\* status, and a decoded document without a "data" member (an error
\* document) gives the empty list.
GetAllMetricNames(r, data) ==
    IF r.err THEN OpErr(<<>>, FALSE)
    ELSE IF r.closed \/ ~r.json THEN OpErr(<<>>, FALSE)
    ELSE OpOk(IF Is2xx(r.status) THEN data ELSE <<>>)

\* The shape shared by GetJobsForMetric, GetCardinality, getLabelsViaQuery,
\* getLabelsViaAPI and GetLabelCardinality: fail on a transport error, on an
\* unreadable body, on a status other than 200 (after the 429 cooldown), on
\* an undecodable body; otherwise the decoded value.
QueryResult(r, data, zero) ==
    IF r.err THEN OpErr(zero, FALSE)
    ELSE IF r.closed THEN OpErr(zero, FALSE)
    ELSE IF r.status # StatusOK
         THEN OpErr(zero, r.status = StatusTooManyRequests)
    ELSE IF ~r.json THEN OpErr(zero, FALSE)
    ELSE OpOk(data)

GetJobsForMetric(r, data) == QueryResult(r, data, <<>>)

GetCardinality(r, data) == QueryResult(r, data, "0")

getLabelsViaQuery(r, data) == QueryResult(r, data, <<>>)

getLabelsViaAPI(r, data) == QueryResult(r, data, <<>>)

GetLabelCardinality(r, data) == QueryResult(r, data, {})

\* GetLabels: the query result when it succeeded with at least one label,
\* the labels API otherwise.
LabelsViaQuerySuffice(q) == ~q.err /\ Len(q.val) > 0

GetLabels(q, a) == IF LabelsViaQuerySuffice(q) THEN q ELSE a

\* ------------------------------------------------ what the backend holds

\* The backend knows the metric names MetricIds and the job names JobIds
\* (only their identity matters): the catalog lists none, one or both
\* metrics; metric 1 is exposed by none, one or both jobs and metric 2 by
\* none or one of them.
Catalogs == {<<>>, <<1>>, <<1, 2>>}
JobLists(m) == IF m = 1 THEN {<<>>, <<1>>, <<1, 2>>} ELSE {<<>>, <<1>>, <<2>>}
CardinalityValues == {"7"}
LabelLists == {<<>>, <<"le">>}
LabelCardinalityMaps == {{<<"le", 3>>}}

\* The results each operation can hand to the collector.
Outcome(res) == [err |-> res.err, val |-> res.val]

GetJobsForMetricResults(m) ==
    {Outcome(GetJobsForMetric(r, d)) : r \in RetryReturns, d \in JobLists(m)}

GetCardinalityResults ==
    {Outcome(GetCardinality(r, d)) : r \in RetryReturns, d \in CardinalityValues}

GetLabelsResults ==
    {Outcome(GetLabels(getLabelsViaQuery(r1, d1), getLabelsViaAPI(r2, d2))) :
        r1 \in RetryReturns, d1 \in LabelLists,
        r2 \in RetryReturns, d2 \in LabelLists}

GetLabelCardinalityResults ==
    {Outcome(GetLabelCardinality(r, d)) :
        r \in RetryReturns, d \in LabelCardinalityMaps}

\* ============================================================= collector

NilMap == [nil |-> TRUE, counts |-> {}]
MapOf(counts) == [nil |-> FALSE, counts |-> counts]

JobMetricData(job, metric, labels, cardinality, labelCardinality) ==
    [Job |-> job, MetricName |-> metric, Labels |-> labels,
     Cardinality |-> cardinality, LabelCardinality |-> labelCardinality]

ErrorRecord(metric) == [MetricName |-> metric, Operation |-> "fetch_job_data"]

basicMetricData(job, cardinality, labels) ==
    [job |-> job, cardinality |-> cardinality, labels |-> labels]

\* A metric's goroutine before it is started.
IdleMetric ==
    [pc |-> "idle", jobNames |-> <<>>, nextJob |-> 1, sem |-> 0, wg |-> 0,
     basicData |-> <<>>, mu |-> FALSE, nextData |-> 1, labelCardSem |-> 0,
     wg2 |-> 0, results |-> <<>>, mu2 |-> FALSE, err |-> FALSE, old |-> <<>>]

\* A phase-1 goroutine (cardinality and labels of one job) before it is started.
IdleJob ==
    [pc |-> "idle", cardinality |-> "", labels |-> <<>>, old |-> <<>>,
     fetch |-> "none"]

\* A phase-2 goroutine (label cardinality of one job) before it is started.
IdleLabelCard ==
    [pc |-> "idle", d |-> basicMetricData(0, "", <<>>), labelCardinality |-> NilMap,
     old |-> <<>>, fetch |-> "none"]


\* NewCollectorWithClient and the Set*Concurrency setters keep every width
\* positive; SetCollectLabelCardinality sets the flag.
Init ==
    /\ maxConcurrentMetrics \in 1..MaxWidth
    /\ maxConcurrentJobs \in 1..MaxWidth
    /\ maxConcurrentLabelCardinality \in 1..MaxWidth
    /\ collectLabelCardinality \in BOOLEAN
    /\ mainPc = "start"
    /\ catalogFetch = "none"
    /\ metricNames = <<>>
    /\ nextMetric = 1
    /\ sem = 0
    /\ wg = 0
    /\ processed = 0
    /\ errors = <<>>
    /\ errorsMu = FALSE
    /\ allData = <<>>
    /\ dataMu = FALSE
    /\ retData = <<>>
    /\ retErrors = <<>>
    /\ retErr = FALSE
    /\ mt = [m \in MetricIds |-> IdleMetric]
    /\ t1 = [m \in MetricIds |-> [j \in JobIds |-> IdleJob]]
    /\ t2 = [m \in MetricIds |-> [j \in JobIds |-> IdleLabelCard]]
    /\ requests = {}
    /\ call = [pc |-> "unused"]
    /\ ev = [pc |-> "unused"]


\* A send that never blocks.
AcquireUnbounded(held, width) == TRUE

\* A send that lets one goroutine too many through.
AcquireOffByOne(held, width) == held <= width

\* sem <- struct{}{} on a channel of capacity width: blocks while it is full.
Acquire(held, width) == held < width

\* An append made without waiting for the mutex.
LockWithoutWaiting(mutex) == TRUE

\* mu.Lock(): blocks while another goroutine holds the mutex.
Lock(mutex) == ~mutex

\* fetchJobMetricData's branch on what getJobMetricDataForMetric returned:
\* an error entry, the metric's records, or nothing.
MetricOutcome(err, jobData) ==
    IF err THEN "lockErrors"
    ELSE IF Len(jobData) > 0 THEN "lockData"
    ELSE "exit"

\* A phase-1 goroutine that returns without giving its slot back.
JobReturnKeepsSlot(s) == [s EXCEPT !.wg = @ - 1]

\* The deferred calls of a phase-1 goroutine: <-sem and wg.Done().
JobReturn(s) == [s EXCEPT !.sem = @ - 1, !.wg = @ - 1]

\* A failed fetch that fails the whole metric.
JobFailedAbortsMetric(s) == [JobReturn(s) EXCEPT !.err = TRUE]

\* A phase-1 goroutine returns on a failed fetch: nothing is recorded, only
\* its deferred calls run.
JobFailed(s) == JobReturn(s)

\* The deferred calls of a phase-2 goroutine: <-labelCardSem and wg2.Done().
LabelCardReturn(s) == [s EXCEPT !.labelCardSem = @ - 1, !.wg2 = @ - 1]

\* Phase 2 without label cardinality: basicData converted in order.
ConvertBasicData(metric, basicData) ==
    [i \in 1..Len(basicData) |->
        JobMetricData(basicData[i].job, metric, basicData[i].labels,
                      basicData[i].cardinality, NilMap)]

\* The map kept as the call returned it, error or not.
LabelCardinalityUnchecked(res) == MapOf(res.val)

\* The per-label map a phase-2 goroutine keeps: nil when the fetch failed.
LabelCardinalityOf(res) == IF res.err THEN NilMap ELSE MapOf(res.val)

\* A goroutine that has returned: its locals are gone. What is kept is what
\* the run's history is read from: the job list discovery returned, and how
\* each fetch ended.
Finished(s) == [IdleMetric EXCEPT !.pc = "done", !.jobNames = s.jobNames,
                                  !.err = s.err]

FinishedTask(idle, t) == [idle EXCEPT !.pc = t.pc, !.fetch = t.fetch]

\* CollectMetrics up to the call of fetchJobMetricData: the catalog fetch,
\* and the early return when it fails.
CatalogFetch ==
    /\ mainPc = "start"
    /\ \E r \in RetryReturns, d \in Catalogs :
          LET res == GetAllMetricNames(r, d) IN
          /\ catalogFetch' = IF FetchFailed(r) THEN "failed" ELSE "fetched"
          /\ IF res.err
             THEN /\ mainPc' = "done"
                  /\ retErr' = TRUE
                  /\ retData' = <<>>
                  /\ retErrors' = <<>>
                  /\ metricNames' = <<>>
             ELSE /\ mainPc' = "loop"
                  /\ metricNames' = res.val
                  /\ UNCHANGED retVars
    /\ requests' = requests \cup {"names"}
    /\ UNCHANGED <<cfgVars, nextMetric, sem, wg, processed, accVars, mt, t1, t2>>
    /\ UNCHANGED nonCollectorVars

\* fetchJobMetricData's loop: wg.Add(1), sem <- struct{}{}, go func(metric),
\* whose first statement calls GetJobsForMetric.
SpawnMetric ==
    /\ mainPc = "loop"
    /\ nextMetric <= Len(metricNames)
    /\ Acquire(sem, maxConcurrentMetrics)
    /\ mt' = [mt EXCEPT ![metricNames[nextMetric]].pc = "jobs"]
    /\ wg' = wg + 1
    /\ sem' = sem + 1
    /\ nextMetric' = nextMetric + 1
    /\ requests' = requests \cup {"jobs"}
    /\ UNCHANGED <<cfgVars, mainPc, catalogFetch, metricNames, processed,
                   accVars, retVars, t1, t2>>
    /\ UNCHANGED nonCollectorVars

\* getJobMetricDataForMetric: GetJobsForMetric returns; an error or an empty
\* job list ends the function.
JobsReturn(m) ==
    /\ mt[m].pc = "jobs"
    /\ \E res \in GetJobsForMetricResults(m) :
          mt' = [mt EXCEPT ![m].err = res.err,
                           ![m].jobNames = res.val,
                           ![m].pc = IF res.err \/ Len(res.val) = 0
                                     THEN MetricOutcome(res.err, <<>>)
                                     ELSE "phase1"]
    /\ UNCHANGED <<cfgVars, mainVars, sem, wg, processed, accVars, retVars,
                   t1, t2, requests>>
    /\ UNCHANGED nonCollectorVars

\* Phase 1 loop: wg.Add(1), sem <- struct{}{}, go func(job), whose first
\* statement calls GetCardinality.
SpawnJob(m) ==
    /\ mt[m].pc = "phase1"
    /\ mt[m].nextJob <= Len(mt[m].jobNames)
    /\ Acquire(mt[m].sem, maxConcurrentJobs)
    /\ t1' = [t1 EXCEPT ![m][mt[m].jobNames[mt[m].nextJob]].pc = "cardinality"]
    /\ mt' = [mt EXCEPT ![m].sem = @ + 1, ![m].wg = @ + 1, ![m].nextJob = @ + 1]
    /\ requests' = requests \cup {"cardinality"}
    /\ UNCHANGED <<cfgVars, mainVars, sem, wg, processed, accVars, retVars, t2>>
    /\ UNCHANGED nonCollectorVars

\* A phase-1 goroutine: GetCardinality returns; on an error the goroutine
\* returns, otherwise it calls GetLabels.
CardinalityReturn(m, j) ==
    /\ t1[m][j].pc = "cardinality"
    /\ \E res \in GetCardinalityResults :
          IF res.err
          THEN /\ t1' = [t1 EXCEPT ![m][j].pc = "done",
                                   ![m][j].fetch = "failed"]
               /\ mt' = [mt EXCEPT ![m] = JobFailed(@)]
               /\ UNCHANGED requests
          ELSE /\ t1' = [t1 EXCEPT ![m][j].pc = "labels",
                                   ![m][j].cardinality = res.val]
               /\ requests' = requests \cup {"labels"}
               /\ UNCHANGED mt
    /\ UNCHANGED <<cfgVars, mainVars, sem, wg, processed, accVars, retVars, t2>>
    /\ UNCHANGED nonCollectorVars

\* A phase-1 goroutine: GetLabels returns; on an error the goroutine returns.
LabelsReturn(m, j) ==
    /\ t1[m][j].pc = "labels"
    /\ \E res \in GetLabelsResults :
          IF res.err
          THEN /\ t1' = [t1 EXCEPT ![m][j].pc = "done",
                                   ![m][j].fetch = "failed"]
               /\ mt' = [mt EXCEPT ![m] = JobFailed(@)]
          ELSE /\ t1' = [t1 EXCEPT ![m][j].pc = "lock",
                                   ![m][j].labels = res.val,
                                   ![m][j].fetch = "ok"]
               /\ UNCHANGED mt
    /\ UNCHANGED <<cfgVars, mainVars, sem, wg, processed, accVars, retVars,
                   t2, requests>>
    /\ UNCHANGED nonCollectorVars

\* A phase-1 goroutine: mu.Lock(), then append reads basicData.
JobLock(m, j) ==
    /\ t1[m][j].pc = "lock"
    /\ Lock(mt[m].mu)
    /\ mt' = [mt EXCEPT ![m].mu = TRUE]
    /\ t1' = [t1 EXCEPT ![m][j].pc = "append", ![m][j].old = mt[m].basicData]
    /\ UNCHANGED <<cfgVars, mainVars, sem, wg, processed, accVars, retVars,
                   t2, requests>>
    /\ UNCHANGED nonCollectorVars

\* A phase-1 goroutine: basicData = append(...), mu.Unlock(), and its
\* deferred calls.
JobAppend(m, j) ==
    /\ t1[m][j].pc = "append"
    /\ mt' = [mt EXCEPT ![m] = JobReturn(
                [@ EXCEPT !.basicData =
                              Append(t1[m][j].old,
                                     basicMetricData(j, t1[m][j].cardinality,
                                                     t1[m][j].labels)),
                          !.mu = FALSE])]
    /\ t1' = [t1 EXCEPT ![m][j].pc = "done", ![m][j].old = <<>>]
    /\ UNCHANGED <<cfgVars, mainVars, sem, wg, processed, accVars, retVars,
                   t2, requests>>
    /\ UNCHANGED nonCollectorVars

\* A phase 1 that goes on to phase 2 once its loop has spawned every job,
\* without waiting for the goroutines it spawned.
Wait1WithoutWaiting(m) ==
    /\ mt[m].pc = "phase1"
    /\ mt[m].nextJob > Len(mt[m].jobNames)
    /\ IF collectLabelCardinality
       THEN mt' = [mt EXCEPT ![m].pc = "phase2"]
       ELSE LET results == ConvertBasicData(m, mt[m].basicData) IN
            mt' = [mt EXCEPT ![m].results = results,
                             ![m].pc = MetricOutcome(mt[m].err, results)]
    /\ UNCHANGED <<cfgVars, mainVars, sem, wg, processed, accVars, retVars,
                   t1, t2, requests>>
    /\ UNCHANGED nonCollectorVars

\* wg.Wait() of phase 1 returns; without label cardinality collection the
\* records are built and the function returns.
Wait1(m) ==
    /\ mt[m].pc = "phase1"
    /\ mt[m].nextJob > Len(mt[m].jobNames)
    /\ mt[m].wg = 0
    /\ IF collectLabelCardinality
       THEN mt' = [mt EXCEPT ![m].pc = "phase2"]
       ELSE LET results == ConvertBasicData(m, mt[m].basicData) IN
            mt' = [mt EXCEPT ![m].results = results,
                             ![m].pc = MetricOutcome(mt[m].err, results)]
    /\ UNCHANGED <<cfgVars, mainVars, sem, wg, processed, accVars, retVars,
                   t1, t2, requests>>
    /\ UNCHANGED nonCollectorVars

\* Phase 2 loop: wg2.Add(1), labelCardSem <- struct{}{}, go func(data); the
\* goroutine calls GetLabelCardinality only when the label list is not empty.
SpawnLabelCardinality(m) ==
    /\ mt[m].pc = "phase2"
    /\ mt[m].nextData <= Len(mt[m].basicData)
    /\ Acquire(mt[m].labelCardSem, maxConcurrentLabelCardinality)
    /\ LET d == mt[m].basicData[mt[m].nextData] IN
          /\ t2' = [t2 EXCEPT ![m][d.job].d = d,
                              ![m][d.job].pc = IF Len(d.labels) > 0
                                               THEN "labelCardinality"
                                               ELSE "lock",
                              ![m][d.job].fetch = IF Len(d.labels) > 0
                                                  THEN "none"
                                                  ELSE "skipped"]
          /\ requests' = IF Len(d.labels) > 0
                         THEN requests \cup {"labelCardinality"}
                         ELSE requests
    /\ mt' = [mt EXCEPT ![m].labelCardSem = @ + 1, ![m].wg2 = @ + 1,
                        ![m].nextData = @ + 1]
    /\ UNCHANGED <<cfgVars, mainVars, sem, wg, processed, accVars, retVars, t1>>
    /\ UNCHANGED nonCollectorVars

\* A phase-2 goroutine: GetLabelCardinality returns; an error is logged and
\* leaves the map nil.
LabelCardinalityReturn(m, j) ==
    /\ t2[m][j].pc = "labelCardinality"
    /\ \E res \in GetLabelCardinalityResults :
          t2' = [t2 EXCEPT ![m][j].labelCardinality = LabelCardinalityOf(res),
                           ![m][j].fetch = IF res.err THEN "failed" ELSE "ok",
                           ![m][j].pc = "lock"]
    /\ UNCHANGED <<cfgVars, mainVars, sem, wg, processed, accVars, retVars,
                   mt, t1, requests>>
    /\ UNCHANGED nonCollectorVars

\* A phase-2 goroutine: mu2.Lock(), then append reads results.
LabelCardLock(m, j) ==
    /\ t2[m][j].pc = "lock"
    /\ Lock(mt[m].mu2)
    /\ mt' = [mt EXCEPT ![m].mu2 = TRUE]
    /\ t2' = [t2 EXCEPT ![m][j].pc = "append", ![m][j].old = mt[m].results]
    /\ UNCHANGED <<cfgVars, mainVars, sem, wg, processed, accVars, retVars,
                   t1, requests>>
    /\ UNCHANGED nonCollectorVars

\* A phase-2 goroutine: results = append(...), mu2.Unlock(), and its
\* deferred calls.
LabelCardAppend(m, j) ==
    /\ t2[m][j].pc = "append"
    /\ mt' = [mt EXCEPT ![m] = LabelCardReturn(
                [@ EXCEPT !.results =
                              Append(t2[m][j].old,
                                     JobMetricData(t2[m][j].d.job, m,
                                                   t2[m][j].d.labels,
                                                   t2[m][j].d.cardinality,
                                                   t2[m][j].labelCardinality)),
                          !.mu2 = FALSE])]
    /\ t2' = [t2 EXCEPT ![m][j].pc = "done", ![m][j].old = <<>>]
    /\ UNCHANGED <<cfgVars, mainVars, sem, wg, processed, accVars, retVars,
                   t1, requests>>
    /\ UNCHANGED nonCollectorVars

\* wg2.Wait() returns and getJobMetricDataForMetric returns its results.
Wait2(m) ==
    /\ mt[m].pc = "phase2"
    /\ mt[m].nextData > Len(mt[m].basicData)
    /\ mt[m].wg2 = 0
    /\ mt' = [mt EXCEPT ![m].pc = MetricOutcome(mt[m].err, mt[m].results)]
    /\ UNCHANGED <<cfgVars, mainVars, sem, wg, processed, accVars, retVars,
                   t1, t2, requests>>
    /\ UNCHANGED nonCollectorVars

\* A metric's goroutine: errorsMu.Lock(), then append reads *errors.
MetricLockErrors(m) ==
    /\ mt[m].pc = "lockErrors"
    /\ Lock(errorsMu)
    /\ errorsMu' = TRUE
    /\ mt' = [mt EXCEPT ![m].pc = "appendErrors", ![m].old = errors]
    /\ UNCHANGED <<cfgVars, mainVars, sem, wg, processed, errors, allData,
                   dataMu, retVars, t1, t2, requests>>
    /\ UNCHANGED nonCollectorVars

\* A metric's goroutine: *errors = append(...), errorsMu.Unlock().
MetricAppendErrors(m) ==
    /\ mt[m].pc = "appendErrors"
    /\ errors' = Append(mt[m].old, ErrorRecord(m))
    /\ errorsMu' = FALSE
    /\ mt' = [mt EXCEPT ![m].pc = "exit", ![m].old = <<>>]
    /\ UNCHANGED <<cfgVars, mainVars, sem, wg, processed, allData, dataMu,
                   retVars, t1, t2, requests>>
    /\ UNCHANGED nonCollectorVars

\* A metric's goroutine: dataMu.Lock(), then append reads allData.
MetricLockData(m) ==
    /\ mt[m].pc = "lockData"
    /\ Lock(dataMu)
    /\ dataMu' = TRUE
    /\ mt' = [mt EXCEPT ![m].pc = "appendData", ![m].old = allData]
    /\ UNCHANGED <<cfgVars, mainVars, sem, wg, processed, errors, errorsMu,
                   allData, retVars, t1, t2, requests>>
    /\ UNCHANGED nonCollectorVars

\* A metric's goroutine: allData = append(allData, jobData...), dataMu.Unlock().
MetricAppendData(m) ==
    /\ mt[m].pc = "appendData"
    /\ allData' = mt[m].old \o mt[m].results
    /\ dataMu' = FALSE
    /\ mt' = [mt EXCEPT ![m].pc = "exit", ![m].old = <<>>]
    /\ UNCHANGED <<cfgVars, mainVars, sem, wg, processed, errors, errorsMu,
                   retVars, t1, t2, requests>>
    /\ UNCHANGED nonCollectorVars

\* A metric's goroutine: the progress counter, then the deferred <-sem and
\* wg.Done().
MetricExit(m) ==
    /\ mt[m].pc = "exit"
    /\ processed' = processed + 1
    /\ sem' = sem - 1
    /\ wg' = wg - 1
    /\ mt' = [mt EXCEPT ![m] = Finished(@)]
    /\ t1' = [t1 EXCEPT ![m] = [j \in JobIds |-> FinishedTask(IdleJob, @[j])]]
    /\ t2' = [t2 EXCEPT ![m] = [j \in JobIds |-> FinishedTask(IdleLabelCard, @[j])]]
    /\ UNCHANGED <<cfgVars, mainVars, accVars, retVars, requests>>
    /\ UNCHANGED nonCollectorVars

\* fetchJobMetricData's wg.Wait() returns and CollectMetrics returns
\* (allData, errors, nil).
Return ==
    /\ mainPc = "loop"
    /\ nextMetric > Len(metricNames)
    /\ wg = 0
    /\ mainPc' = "done"
    /\ retData' = allData
    /\ retErrors' = errors
    /\ retErr' = FALSE
    /\ UNCHANGED <<cfgVars, catalogFetch, metricNames, nextMetric, sem, wg,
                   processed, accVars, mt, t1, t2, requests>>
    /\ UNCHANGED nonCollectorVars

Next ==
    \/ CatalogFetch
    \/ SpawnMetric
    \/ \E m \in MetricIds : JobsReturn(m)
    \/ \E m \in MetricIds : SpawnJob(m)
    \/ \E m \in MetricIds, j \in JobIds : CardinalityReturn(m, j)
    \/ \E m \in MetricIds, j \in JobIds : LabelsReturn(m, j)
    \/ \E m \in MetricIds, j \in JobIds : JobLock(m, j)
    \/ \E m \in MetricIds, j \in JobIds : JobAppend(m, j)
    \/ \E m \in MetricIds : Wait1(m)
    \/ \E m \in MetricIds : SpawnLabelCardinality(m)
    \/ \E m \in MetricIds, j \in JobIds : LabelCardinalityReturn(m, j)
    \/ \E m \in MetricIds, j \in JobIds : LabelCardLock(m, j)
    \/ \E m \in MetricIds, j \in JobIds : LabelCardAppend(m, j)
    \/ \E m \in MetricIds : Wait2(m)
    \/ \E m \in MetricIds : MetricLockErrors(m)
    \/ \E m \in MetricIds : MetricAppendErrors(m)
    \/ \E m \in MetricIds : MetricLockData(m)
    \/ \E m \in MetricIds : MetricAppendData(m)
    \/ \E m \in MetricIds : MetricExit(m)
    \/ Return

Spec == Init /\ [][Next]_vars

\* The run under a scheduler that keeps running some goroutine that can
\* take a step, with every remote call returning: a step that can be taken
\* is not put off forever.
SpecLive == Spec /\ WF_vars(Next)


\* ========================================================== one client call

Operations == {"GetAllMetricNames", "GetJobsForMetric", "GetCardinality",
               "GetLabels", "GetLabelCardinality"}

\* The request function an operation starts with; GetLabels starts with
\* getLabelsViaQuery and may go on with getLabelsViaAPI.
FirstRequest(op) == IF op = "GetLabels" THEN "getLabelsViaQuery" ELSE op

\* What a 200 response to a request can carry.
Payloads(request) ==
    CASE request = "GetAllMetricNames" -> Catalogs
      [] request = "GetJobsForMetric" -> JobLists(1)
      [] request = "GetCardinality" -> CardinalityValues
      [] request \in {"getLabelsViaQuery", "getLabelsViaAPI"} -> LabelLists
      [] request = "GetLabelCardinality" -> LabelCardinalityMaps

\* What a request function makes of the return of doRequestWithRetry.
RequestResult(request, r, data) ==
    CASE request = "GetAllMetricNames" -> GetAllMetricNames(r, data)
      [] request = "GetJobsForMetric" -> GetJobsForMetric(r, data)
      [] request = "GetCardinality" -> GetCardinality(r, data)
      [] request = "getLabelsViaQuery" -> getLabelsViaQuery(r, data)
      [] request = "getLabelsViaAPI" -> getLabelsViaAPI(r, data)
      [] request = "GetLabelCardinality" -> GetLabelCardinality(r, data)

\* One iteration of doRequestWithRetry's loop, after the transport attempt
\* numbered attempt (from 0) ended in o: go round again, return the error,
\* or return the response.
RetryStep(attempt, RetryCount, o) ==
    IF o.err
    THEN IF attempt < RetryCount THEN "continue" ELSE "returnError"
    ELSE IF Is2xx(o.status) THEN "returnResponse"
    ELSE IF IsRetried(o.status) /\ attempt < RetryCount THEN "continue"
    ELSE "returnResponse"

NoResult == [err |-> FALSE, val |-> <<>>, slept |-> FALSE]

\* The state the collector's variables take while one client call is followed.
CollectorIdle ==
    /\ maxConcurrentMetrics = 1
    /\ maxConcurrentJobs = 1
    /\ maxConcurrentLabelCardinality = 1
    /\ collectLabelCardinality = FALSE
    /\ mainPc = "unused"
    /\ catalogFetch = "none"
    /\ metricNames = <<>>
    /\ nextMetric = 1
    /\ sem = 0
    /\ wg = 0
    /\ processed = 0
    /\ errors = <<>>
    /\ errorsMu = FALSE
    /\ allData = <<>>
    /\ dataMu = FALSE
    /\ retData = <<>>
    /\ retErrors = <<>>
    /\ retErr = FALSE
    /\ mt = [m \in MetricIds |-> IdleMetric]
    /\ t1 = [m \in MetricIds |-> [j \in JobIds |-> IdleJob]]
    /\ t2 = [m \in MetricIds |-> [j \in JobIds |-> IdleLabelCard]]
    /\ requests = {}

\* A client with a retry count set by NewPrometheusClient or SetRetryCount,
\* about to run one operation.
\*   attempt, history: the loop variable of the running doRequestWithRetry
\*       and the outcomes of its transport attempts so far;
\*   ret: what doRequestWithRetry returned; reqResult: what the request
\*       function returned; result: what the operation returned;
\*   total: transport attempts of the whole operation; waited: seconds of
\*       backoff slept; limitedAt: the attempt (counted over the operation)
\*       first answered 429, or 0; refused: some attempt was answered with a
\*       non-2xx status that is not retried.
InitClient ==
    /\ CollectorIdle
    /\ ev = [pc |-> "unused"]
    /\ \E op \in Operations, R \in 0..MaxRetry :
          call = [pc |-> "request", op |-> op, request |-> FirstRequest(op),
                  RetryCount |-> R, attempt |-> 0, history |-> <<>>,
                  ret |-> RetryError, reqResult |-> NoResult,
                  result |-> NoResult, total |-> 0, waited |-> 0,
                  limitedAt |-> 0, refused |-> FALSE]

\* doRequestWithRetry: one iteration of the loop (the backoff sleep, the
\* transport attempt, and the decision to retry or return).
Attempt ==
    /\ call.pc = "request"
    /\ call.attempt <= call.RetryCount
    /\ \E o \in Outcomes :
          LET step == RetryStep(call.attempt, call.RetryCount, o) IN
          call' = [call EXCEPT
                    !.history = Append(@, o),
                    !.total = @ + 1,
                    !.waited = @ + call.attempt,
                    !.limitedAt = IF @ = 0 /\ ~o.err
                                     /\ o.status = StatusTooManyRequests
                                  THEN call.total + 1 ELSE @,
                    !.refused = @ \/ (~o.err /\ ~Is2xx(o.status)
                                        /\ ~IsRetried(o.status)),
                    !.attempt = IF step = "continue" THEN @ + 1 ELSE @,
                    !.ret = IF step = "returnError" THEN RetryError
                            ELSE IF step = "returnResponse" THEN RetryResponse(o)
                            ELSE @,
                    !.pc = IF step = "continue" THEN "request" ELSE "respond"]
    /\ UNCHANGED nonClientVars

\* The request function after doRequestWithRetry returned: read the body,
\* check the status (sleeping on a 429), decode.
Respond ==
    /\ call.pc = "respond"
    /\ \E data \in Payloads(call.request) :
          LET res == RequestResult(call.request, call.ret, data) IN
          call' = [call EXCEPT
                    !.reqResult = res,
                    !.result = IF call.request = "getLabelsViaQuery"
                               THEN @ ELSE res,
                    !.pc = IF call.request = "getLabelsViaQuery"
                           THEN "GetLabels" ELSE "done"]
    /\ UNCHANGED nonClientVars

\* GetLabels after getLabelsViaQuery returned: return its labels, or go on
\* with getLabelsViaAPI.
GetLabelsFallback ==
    /\ call.pc = "GetLabels"
    /\ IF LabelsViaQuerySuffice(call.reqResult)
       THEN call' = [call EXCEPT !.result = call.reqResult, !.pc = "done"]
       ELSE call' = [call EXCEPT !.request = "getLabelsViaAPI",
                                 !.attempt = 0,
                                 !.history = <<>>,
                                 !.pc = "request"]
    /\ UNCHANGED nonClientVars

NextClient ==
    \/ Attempt
    \/ Respond
    \/ GetLabelsFallback

SpecClient == InitClient /\ [][NextClient]_vars


\* ============================================================ rule engine

\* ------------------------------------------------------------------ text

\* A Go string is modelled as the sequence of its characters.
Upper == <<"A", "B", "C", "D", "E", "F", "G", "H", "I", "J", "K", "L", "M",
           "N", "O", "P", "Q", "R", "S", "T", "U", "V", "W", "X", "Y", "Z">>
Lower == <<"a", "b", "c", "d", "e", "f", "g", "h", "i", "j", "k", "l", "m",
           "n", "o", "p", "q", "r", "s", "t", "u", "v", "w", "x", "y", "z">>
Digits == <<"0", "1", "2", "3", "4", "5", "6", "7", "8", "9">>

\* strings.ToLower
ToLowerChar(c) ==
    IF \E i \in DOMAIN Upper : Upper[i] = c
    THEN Lower[CHOOSE i \in DOMAIN Upper : Upper[i] = c]
    ELSE c

ToLower(s) == [i \in 1..Len(s) |-> ToLowerChar(s[i])]

\* strings.Contains
Contains(s, substr) ==
    \E i \in 0..(Len(s) - Len(substr)) : SubSeq(s, i + 1, i + Len(substr)) = substr

\* regexp.Compile, for the patterns the rule documents here use: an optional
\* leading ^, an optional trailing $, and between them either the repeated
\* class [a-z]+ or literal characters; a [ that is never closed does not
\* compile.
LowerPlus == <<"[", "a", "-", "z", "]", "+">>

Compile(text) ==
    LET anchorStart == Len(text) > 0 /\ text[1] = "^"
        rest == IF anchorStart THEN Tail(text) ELSE text
        anchorEnd == Len(rest) > 0 /\ rest[Len(rest)] = "$"
        body == IF anchorEnd THEN SubSeq(rest, 1, Len(rest) - 1) ELSE rest
    IN
    IF body = LowerPlus
    THEN [err |-> FALSE, anchorStart |-> anchorStart, anchorEnd |-> anchorEnd,
          class |-> TRUE, literal |-> <<>>]
    ELSE IF "[" \in Range(body) /\ "]" \notin Range(body)
    THEN [err |-> TRUE, anchorStart |-> FALSE, anchorEnd |-> FALSE,
          class |-> FALSE, literal |-> <<>>]
    ELSE [err |-> FALSE, anchorStart |-> anchorStart, anchorEnd |-> anchorEnd,
          class |-> FALSE, literal |-> body]

\* Regexp.MatchString: some substring of s matches the pattern (a search,
\* anchored only where the pattern says so).
MatchString(re, s) ==
    \E i \in 1..(Len(s) + 1) : \E j \in (i - 1)..Len(s) :
        /\ re.anchorStart => i = 1
        /\ re.anchorEnd => j = Len(s)
        /\ IF re.class
           THEN j >= i /\ \A k \in i..j : s[k] \in Range(Lower)
           ELSE SubSeq(s, i, j) = re.literal

\* ------------------------------------------------------------ conditions

\* ConditionConfig.Value as yaml.v3 decodes it into interface{}: a string, an
\* int or a float64.
StringValue(str) == [type |-> "string", str |-> str, num |-> 0]
IntValue(n) == [type |-> "int", str |-> <<>>, num |-> n]
FloatValue(n) == [type |-> "float64", str |-> <<>>, num |-> n]

ConditionConfig(field, operator, value) ==
    [Field |-> field, Operator |-> operator, Value |-> value]

compareStrings(actual, operator, expected) ==
    IF expected.type # "string" THEN FALSE
    ELSE CASE operator = "matches" ->
                  LET regex == Compile(expected.str) IN
                  IF regex.err THEN FALSE ELSE MatchString(regex, actual)
           [] operator = "contains" ->
                  Contains(ToLower(actual), ToLower(expected.str))
           [] operator = "not_contains" ->
                  ~Contains(ToLower(actual), ToLower(expected.str))
           [] operator = "eq" -> actual = expected.str
           [] OTHER -> FALSE

compareValues(actual, operator, expected) ==
    IF expected.type \notin {"float64", "int"} THEN FALSE
    ELSE CASE operator = "gt" -> actual > expected.num
           [] operator = "lt" -> actual < expected.num
           [] operator = "gte" -> actual >= expected.num
           [] operator = "lte" -> actual <= expected.num
           [] operator = "eq" -> actual = expected.num
           [] OTHER -> FALSE

compareLabelCount(labelCount, condition) ==
    IF condition.Value.type # "int" THEN FALSE
    ELSE CASE condition.Operator = "lt" -> labelCount < condition.Value.num
           [] condition.Operator = "lte" -> labelCount <= condition.Value.num
           [] condition.Operator = "gt" -> labelCount > condition.Value.num
           [] condition.Operator = "gte" -> labelCount >= condition.Value.num
           [] condition.Operator = "eq" -> labelCount = condition.Value.num
           [] OTHER -> FALSE

\* The loop of evaluateLabelsField that returns at the first label matching.
AnyLabel(tests) == \E i \in 1..Len(tests) : tests[i]

\* A loop under "matches" that returns at the first label matching.
EveryLabelAsAny(tests) == \E i \in 1..Len(tests) : tests[i]

\* The loop of evaluateLabelsField under "matches": every label must match.
EveryLabel(tests) == \A i \in 1..Len(tests) : tests[i]

evaluateLabelsField(labels, condition) ==
    LET ContainsValue ==
            [i \in 1..Len(labels) |->
                Contains(ToLower(labels[i]), ToLower(condition.Value.str))]
        Compares ==
            [i \in 1..Len(labels) |->
                compareStrings(labels[i], condition.Operator, condition.Value)]
    IN
    IF condition.Value.type # "string" THEN FALSE
    ELSE CASE condition.Operator = "not_contains" -> ~AnyLabel(ContainsValue)
           [] condition.Operator = "contains" -> AnyLabel(ContainsValue)
           [] condition.Operator = "matches" -> EveryLabel(Compares)
           [] OTHER -> AnyLabel(Compares)

\* loaders.CardinalityData and loaders.LabelsData
CardinalityData(metricName, count) == [MetricName |-> metricName, Count |-> count]
LabelsData(metricName, labels) == [MetricName |-> metricName, Labels |-> labels]

\* One condition of a cardinality validator on one row; an unknown field
\* makes the row fail.
CardinalityConditionMet(metric, condition) ==
    CASE condition.Field = "count" ->
             compareValues(metric.Count, condition.Operator, condition.Value)
      [] condition.Field = "metric_name" ->
             compareStrings(metric.MetricName, condition.Operator, condition.Value)
      [] OTHER -> FALSE

evaluateCardinalityMetric(metric, conditions) ==
    \A i \in 1..Len(conditions) : CardinalityConditionMet(metric, conditions[i])

\* One condition of a labels, label_count or format validator on one row.
LabelsConditionMet(metric, condition) ==
    CASE condition.Field = "metric_name" ->
             compareStrings(metric.MetricName, condition.Operator, condition.Value)
      [] condition.Field = "labels" ->
             evaluateLabelsField(metric.Labels, condition)
      [] condition.Field = "label_count" ->
             compareLabelCount(Len(metric.Labels), condition)
      [] OTHER -> FALSE

evaluateLabelsMetric(metric, conditions) ==
    \A i \in 1..Len(conditions) : LabelsConditionMet(metric, conditions[i])

\* ------------------------------------------------------------ validators

ValidatorConfig(name, type, dataSource, conditions) ==
    [Name |-> name, Type |-> type, DataSource |-> dataSource,
     Conditions |-> conditions]

RuleDefinition(ruleId, impact, validators) ==
    [RuleID |-> ruleId, Impact |-> impact, Validators |-> validators]

\* The dataSources map EvaluateWithData builds: both keys are always set.
DataSources(cardinalityData, labelsData) ==
    [cardinality |-> cardinalityData, labels |-> labelsData]

\* The names of the rows of data that failed (passes[i] is FALSE), in the order of data.
FailedNames(data, passes) ==
    LET failed[i \in 0..Len(data)] ==
            IF i = 0 THEN <<>>
            ELSE IF passes[i] THEN failed[i - 1]
            ELSE Append(failed[i - 1], data[i].MetricName)
    IN failed[Len(data)]

PassedRows(data, passes) == {i \in 1..Len(data) : passes[i]}

\* The sum of the Count of the rows of data whose index is in rows.
SumCount(data, rows) ==
    LET total[i \in 0..Len(data)] ==
            IF i = 0 THEN 0
            ELSE total[i - 1] + (IF i \in rows THEN data[i].Count ELSE 0)
    IN total[Len(data)]

ValidatorError ==
    [err |-> TRUE, passed |-> 0, total |-> 0, failedMetrics |-> <<>>,
     passedCard |-> 0, totalCard |-> 0]

evaluateMetrics(data, validator) ==
    LET passes == [i \in 1..Len(data) |->
                     evaluateLabelsMetric(data[i], validator.Conditions)]
    IN
    [err |-> FALSE,
     passed |-> Cardinality(PassedRows(data, passes)),
     total |-> Len(data),
     failedMetrics |-> FailedNames(data, passes),
     passedCard |-> 0, totalCard |-> 0]

evaluateMetricsWithCardinality(data, validator) ==
    LET passes == [i \in 1..Len(data) |->
                     evaluateCardinalityMetric(data[i], validator.Conditions)]
    IN
    [err |-> FALSE,
     passed |-> Cardinality(PassedRows(data, passes)),
     total |-> Len(data),
     failedMetrics |-> FailedNames(data, passes),
     passedCard |-> SumCount(data, PassedRows(data, passes)),
     totalCard |-> SumCount(data, 1..Len(data))]

\* The data source named does not exist, the data it holds is not of the
\* type the validator type works on, or the validator type is unknown: an
\* error. Otherwise the rows of the data source are evaluated.
evaluateValidatorWithStats(validator, dataSources) ==
    IF validator.DataSource \notin DOMAIN dataSources THEN ValidatorError
    ELSE CASE validator.Type = "cardinality" ->
                  IF validator.DataSource # "cardinality" THEN ValidatorError
                  ELSE evaluateMetricsWithCardinality(dataSources.cardinality,
                                                      validator)
           [] validator.Type \in {"format", "labels", "label_count"} ->
                  IF validator.DataSource # "labels" THEN ValidatorError
                  ELSE evaluateMetrics(dataSources.labels, validator)
           [] OTHER -> ValidatorError

\* A map that keeps only the first validator that rejected a metric.
AppendFailedMetricsOnce(map, failedMetrics, name) ==
    [m \in (DOMAIN map) \cup Range(failedMetrics) |->
        IF m \in DOMAIN map THEN map[m] ELSE <<name>>]

\* result.FailedMetrics[metricName] = append(result.FailedMetrics[metricName],
\* validator.Name) for each name of failedMetrics.
AppendFailedMetrics(map, failedMetrics, name) ==
    [m \in (DOMAIN map) \cup Range(failedMetrics) |->
        (IF m \in DOMAIN map THEN map[m] ELSE <<>>)
        \o [k \in 1..Cardinality({i \in 1..Len(failedMetrics) :
                                    failedMetrics[i] = m}) |-> name]]

EmptyRuleResult(rule) ==
    [RuleID |-> rule.RuleID, Impact |-> rule.Impact,
     PassedChecks |-> 0, TotalChecks |-> Len(rule.Validators),
     FailedChecks |-> <<>>, FailedMetrics |-> <<>>,
     PassedMetrics |-> 0, TotalMetrics |-> 0,
     PassedCardinality |-> 0, TotalCardinality |-> 0,
     ValidatorStats |-> <<>>]

\* One iteration of evaluateRule's loop that did not end in an error.
AddValidator(result, validator, v) ==
    [result EXCEPT
        !.ValidatorStats = Append(@, [Name |-> validator.Name,
                                      PassedMetrics |-> v.passed,
                                      TotalMetrics |-> v.total]),
        !.PassedMetrics = @ + v.passed,
        !.TotalMetrics = @ + v.total,
        !.PassedCardinality = @ + v.passedCard,
        !.TotalCardinality = @ + v.totalCard,
        !.PassedChecks = @ + 1,
        !.FailedChecks = IF Len(v.failedMetrics) > 0
                         THEN Append(@, validator.Name) ELSE @,
        !.FailedMetrics = AppendFailedMetrics(@, v.failedMetrics, validator.Name)]

\* evaluateRule: the result and nil, or the result so far and the error of
\* the first validator that failed to evaluate; msg holds the parts of the
\* error text ("validator %s failed: ...").
evaluateRule(rule, dataSources) ==
    LET loop[i \in 0..Len(rule.Validators)] ==
            IF i = 0
            THEN [err |-> FALSE, msg |-> <<>>, result |-> EmptyRuleResult(rule)]
            ELSE LET before == loop[i - 1]
                     v == evaluateValidatorWithStats(rule.Validators[i],
                                                     dataSources)
                 IN  IF before.err THEN before
                     ELSE IF v.err
                     THEN [before EXCEPT
                             !.err = TRUE,
                             !.msg = <<"validator", rule.Validators[i].Name,
                                       "failed">>]
                     ELSE [before EXCEPT
                             !.result = AddValidator(@, rule.Validators[i], v)]
    IN loop[Len(rule.Validators)]

\* A loop over the rules that returns the results collected so far with the
\* error.
evaluateWithDataSourcesPartial(rules, dataSources) ==
    LET loop[i \in 0..Len(rules)] ==
            IF i = 0 THEN [err |-> FALSE, msg |-> <<>>, results |-> <<>>]
            ELSE LET before == loop[i - 1]
                     r == evaluateRule(rules[i], dataSources)
                 IN  IF before.err THEN before
                     ELSE IF r.err
                     THEN [before EXCEPT
                             !.err = TRUE,
                             !.msg = <<"failed to evaluate rule",
                                       rules[i].RuleID>> \o r.msg]
                     ELSE [before EXCEPT !.results = Append(@, r.result)]
    IN loop[Len(rules)]

\* evaluateWithDataSources: one result per rule, or no result and the error
\* of the first rule that failed; msg holds the parts of the error text
\* ("failed to evaluate rule %s: validator %s failed: ...").
evaluateWithDataSources(rules, dataSources) ==
    LET loop[i \in 0..Len(rules)] ==
            IF i = 0 THEN [err |-> FALSE, msg |-> <<>>, results |-> <<>>]
            ELSE LET before == loop[i - 1]
                     r == evaluateRule(rules[i], dataSources)
                 IN  IF before.err THEN before
                     ELSE IF r.err
                     THEN [err |-> TRUE,
                           msg |-> <<"failed to evaluate rule",
                                     rules[i].RuleID>> \o r.msg,
                           results |-> <<>>]
                     ELSE [before EXCEPT !.results = Append(@, r.result)]
    IN loop[Len(rules)]

EvaluateWithData(rules, cardinalityData, labelsData) ==
    evaluateWithDataSources(rules, DataSources(cardinalityData, labelsData))

\* ----------------------------------------------------------------- score

\* impactWeights[result.Impact]: the zero value for an impact that is not a
\* key of the map.
impactWeights(impact) ==
    CASE impact = "Critical" -> 40
      [] impact = "Important" -> 30
      [] impact = "Normal" -> 20
      [] impact = "Low" -> 10
      [] OTHER -> 0

\* Every rule scored by series, whatever data its validators used.
CardinalityWeightedAlways(result) == TRUE

\* Every rule scored by metrics, whatever data its validators used.
CardinalityWeightedNever(result) == FALSE

\* The rule has cardinality data: it is scored by series, not by metrics.
CardinalityWeighted(result) == result.TotalCardinality > 0

\* The numerator and the denominator after the loop over the results.
ScoreSums(results) ==
    LET sums[i \in 0..Len(results)] ==
            IF i = 0 THEN [numerator |-> 0, denominator |-> 0]
            ELSE LET weight == impactWeights(results[i].Impact)
                     before == sums[i - 1]
                 IN
                 IF CardinalityWeighted(results[i])
                 THEN [numerator |-> before.numerator
                                        + results[i].PassedCardinality * weight,
                       denominator |-> before.denominator
                                        + results[i].TotalCardinality * weight]
                 ELSE [numerator |-> before.numerator
                                        + results[i].PassedMetrics * weight,
                       denominator |-> before.denominator
                                        + results[i].TotalMetrics * weight]
    IN sums[Len(results)]

\* A float64 score is kept as the exact quotient num/den (den > 0).
Quotient(num, den) == [num |-> num, den |-> den]

CalculateInstrumentationScore(results) ==
    LET s == ScoreSums(results) IN
    IF s.denominator = 0 THEN Quotient(0, 1)
    ELSE Quotient(s.numerator * 100, s.denominator)

\* ----------------------------------------------------------- record files

\* strings.Split(s, sep) for a one-character separator.
Split(s, sep) ==
    LET parts[i \in 0..Len(s)] ==
            IF i = 0 THEN << <<>> >>
            ELSE LET before == parts[i - 1] IN
                 IF s[i] = sep THEN Append(before, <<>>)
                 ELSE [before EXCEPT ![Len(before)] = Append(@, s[i])]
    IN parts[Len(s)]

\* strings.TrimSpace, for the blank character.
TrimSpace(s) ==
    LET blank(i) == s[i] = " "
        kept == {i \in 1..Len(s) : ~blank(i)}
    IN  IF kept = {} THEN <<>>
        ELSE SubSeq(s, CHOOSE i \in kept : \A k \in kept : i <= k,
                       CHOOSE i \in kept : \A k \in kept : i >= k)

HasPrefix(s, prefix) ==
    Len(s) >= Len(prefix) /\ SubSeq(s, 1, Len(prefix)) = prefix

\* strconv.ParseInt(s, 10, 64): an optional sign and at least one digit
\* (values stay far from the 64-bit range here).
DigitValue(c) == (CHOOSE i \in DOMAIN Digits : Digits[i] = c) - 1

ParseInt(s) ==
    LET signed == Len(s) > 0 /\ s[1] \in {"+", "-"}
        digits == IF signed THEN Tail(s) ELSE s
        value[i \in 0..Len(digits)] ==
            IF i = 0 THEN 0 ELSE value[i - 1] * 10 + DigitValue(digits[i])
    IN  IF Len(digits) = 0 \/ \E i \in 1..Len(digits) : digits[i] \notin Range(Digits)
        THEN [err |-> TRUE, val |-> 0]
        ELSE [err |-> FALSE,
              val |-> IF signed /\ s[1] = "-" THEN 0 - value[Len(digits)]
                      ELSE value[Len(digits)]]

\* The labels of a comma-joined list: trimmed, the empty ones dropped.
CleanLabels(labelsStr) ==
    LET labels == Split(labelsStr, ",")
        clean[i \in 0..Len(labels)] ==
            IF i = 0 THEN <<>>
            ELSE IF TrimSpace(labels[i]) # <<>>
                 THEN Append(clean[i - 1], TrimSpace(labels[i]))
                 ELSE clean[i - 1]
    IN clean[Len(labels)]

\* The fifth column, label1:count1,label2:count2: a map, a later pair
\* replacing an earlier one for the same label, unparsable pairs dropped.
ParseLabelCardinality(labelCardStr) ==
    LET pairs == Split(labelCardStr, ",")
        counts[i \in 0..Len(pairs)] ==
            IF i = 0 THEN {}
            ELSE LET kv == Split(pairs[i], ":")
                     before == counts[i - 1]
                 IN
                 IF Len(kv) = 2 /\ ~ParseInt(TrimSpace(kv[2])).err
                 THEN {p \in before : p[1] # TrimSpace(kv[1])}
                        \cup {<<TrimSpace(kv[1]), ParseInt(TrimSpace(kv[2])).val>>}
                 ELSE before
    IN MapOf(counts[Len(pairs)])

\* loaders.JobMetricData
LoadedJobMetricData(job, metricName, labels, cardinality, labelCardinality) ==
    [Job |-> job, MetricName |-> metricName, Labels |-> labels,
     Cardinality |-> cardinality, LabelCardinality |-> labelCardinality]

\* The line of a record file is kept: not blank, not a comment, at least
\* four columns, a numeric fourth column.
LineKept(text) ==
    LET line == TrimSpace(text)
        parts == Split(line, "|")
    IN  /\ line # <<>>
        /\ ~HasPrefix(line, <<"#">>)
        /\ Len(parts) >= 4
        /\ ~ParseInt(TrimSpace(parts[4])).err

LineRecord(text) ==
    LET parts == Split(TrimSpace(text), "|") IN
    LoadedJobMetricData(TrimSpace(parts[1]), TrimSpace(parts[2]),
                        CleanLabels(TrimSpace(parts[3])),
                        ParseInt(TrimSpace(parts[4])).val,
                        IF Len(parts) >= 5 /\ TrimSpace(parts[5]) # <<>>
                        THEN ParseLabelCardinality(TrimSpace(parts[5]))
                        ELSE NilMap)

\* LoadJobMetricReport on a file that opens, given as its lines: the first
\* line is skipped, then one record per kept line.
LoadJobMetricReport(lines) ==
    LET data[i \in 0..Len(lines)] ==
            IF i = 0 THEN <<>>
            ELSE IF i > 1 /\ LineKept(lines[i])
                 THEN Append(data[i - 1], LineRecord(lines[i]))
                 ELSE data[i - 1]
    IN data[Len(lines)]

ConvertJobMetricToCardinality(jobData) ==
    [i \in 1..Len(jobData) |->
        CardinalityData(jobData[i].MetricName, jobData[i].Cardinality)]

ConvertJobMetricToLabels(jobData) ==
    [i \in 1..Len(jobData) |->
        LabelsData(jobData[i].MetricName, jobData[i].Labels)]

\* ------------------------------------------------------------- exclusion

ExclusionEntry(job, jobNamePattern, metrics) ==
    [Job |-> job, JobNamePattern |-> jobNamePattern, Metrics |-> metrics]

RulesConfig(exclusionList, rules) ==
    [ExclusionList |-> exclusionList, Rules |-> rules]

\* NewRuleEngine on a rules file that reads and unmarshals to config: the
\* patterns of the exclusion list are compiled (nil for an empty pattern),
\* and an invalid one fails the construction.
NewRuleEngine(config) ==
    IF \E i \in 1..Len(config.ExclusionList) :
           /\ config.ExclusionList[i].JobNamePattern # <<>>
           /\ Compile(config.ExclusionList[i].JobNamePattern).err
    THEN [err |-> TRUE, rules |-> <<>>, exclusionList |-> <<>>,
          exclusionPatterns |-> <<>>]
    ELSE [err |-> FALSE, rules |-> config.Rules,
          exclusionList |-> config.ExclusionList,
          exclusionPatterns |->
              [i \in 1..Len(config.ExclusionList) |->
                  IF config.ExclusionList[i].JobNamePattern # <<>>
                  THEN [nil |-> FALSE,
                        re |-> Compile(config.ExclusionList[i].JobNamePattern)]
                  ELSE [nil |-> TRUE, re |-> Compile(<<>>)]]]

\* An entry without an exact name taken to match every job.
MatchesExactOrUnnamed(e, i, jobName) ==
    e.exclusionList[i].Job = <<>> \/ e.exclusionList[i].Job = jobName

\* The i-th exclusion entry matches the job by its exact name.
MatchesExact(e, i, jobName) ==
    e.exclusionList[i].Job # <<>> /\ e.exclusionList[i].Job = jobName

\* The i-th exclusion entry matches the job by its pattern.
MatchesPattern(e, i, jobName) ==
    /\ e.exclusionList[i].JobNamePattern # <<>>
    /\ ~e.exclusionPatterns[i].nil
    /\ MatchString(e.exclusionPatterns[i].re, jobName)

IsJobExcluded(e, jobName) ==
    \E i \in 1..Len(e.exclusionList) :
        \/ MatchesExact(e, i, jobName) /\ Len(e.exclusionList[i].Metrics) = 0
        \/ MatchesPattern(e, i, jobName) /\ Len(e.exclusionList[i].Metrics) = 0

IsMetricExcluded(e, jobName, metricName) ==
    \E i \in 1..Len(e.exclusionList) :
        /\ MatchesExact(e, i, jobName) \/ MatchesPattern(e, i, jobName)
        /\ \/ Len(e.exclusionList[i].Metrics) = 0
           \/ \E k \in 1..Len(e.exclusionList[i].Metrics) :
                  e.exclusionList[i].Metrics[k] = metricName

\* The rows of data whose metric is not excluded for the job, in order.
FilterRows(e, jobName, data) ==
    LET kept[i \in 0..Len(data)] ==
            IF i = 0 THEN <<>>
            ELSE IF ~IsMetricExcluded(e, jobName, data[i].MetricName)
                 THEN Append(kept[i - 1], data[i])
                 ELSE kept[i - 1]
    IN kept[Len(data)]

FilterExcludedMetrics(e, jobName, cardinalityData, labelsData) ==
    [cardinality |-> FilterRows(e, jobName, cardinalityData),
     labels |-> FilterRows(e, jobName, labelsData)]

\* ------------------------------------------------- record files and rules

MaxRows == 2
MaxValidators == 2

\* All sequences over S of length at most n.
SeqsUpTo(S, n) == UNION {[1..k -> S] : k \in 0..n}

\* Names found in record files: one job, two metrics, three labels.
api == <<"a", "p", "i">>
up == <<"u", "p">>
rpc == <<"r", "p", "c">>
le == <<"l", "e">>
method == <<"m", "e", "t", "h", "o", "d">>
USER == <<"U", "S", "E", "R">>

\* strings.Join
Join(parts, sep) ==
    LET joined[i \in 0..Len(parts)] ==
            IF i = 0 THEN <<>>
            ELSE IF i = 1 THEN parts[1]
            ELSE joined[i - 1] \o <<sep>> \o parts[i]
    IN joined[Len(parts)]

\* The header of a record file.
HeaderLine == Join(<< <<"J", "O", "B">>, <<"M">>, <<"L">>, <<"C">> >>, "|")

\* Lines of a record file: JOB|METRIC_NAME|LABELS|CARDINALITY with a
\* cardinality that is positive, zero, negative or not a number.
RecordLines ==
    {Join(<<api, up, le, <<"7">> >>, "|"),
     Join(<<api, rpc, Join(<<method, USER>>, ","), <<"0">> >>, "|"),
     Join(<<api, rpc, le, <<"-", "5">> >>, "|"),
     Join(<<api, up, <<>>, <<"1", "2">> >>, "|"),
     Join(<<api, rpc, le, <<"x">> >>, "|")}

\* A record file: the header and at most MaxRows lines.
RecordFiles == {<<HeaderLine>> \o lines : lines \in SeqsUpTo(RecordLines, MaxRows)}

\* Validators of a rule document: well-formed ones on each data source, one
\* whose condition names a field its rows do not have, one whose condition
\* uses an operator its field does not have, and one whose type does not fit
\* its data source.
Validators ==
    {ValidatorConfig("max_cardinality", "cardinality", "cardinality",
        <<ConditionConfig("count", "gte", IntValue(0)),
          ConditionConfig("count", "lte", IntValue(7))>>),
     ValidatorConfig("snake_case", "format", "labels",
        <<ConditionConfig("metric_name", "matches",
             StringValue(<<"^", "[", "a", "-", "z", "]", "+", "$">>))>>),
     ValidatorConfig("no_user_label", "labels", "labels",
        <<ConditionConfig("labels", "not_contains",
             StringValue(<<"u", "s", "e", "r">>))>>),
     ValidatorConfig("bad_field", "cardinality", "cardinality",
        <<ConditionConfig("cardinality", "lte", IntValue(7))>>),
     ValidatorConfig("bad_operator", "label_count", "labels",
        <<ConditionConfig("label_count", "ne", IntValue(1))>>),
     ValidatorConfig("wrong_source", "labels", "cardinality",
        <<ConditionConfig("labels", "contains", StringValue(le))>>)}

\* The rules with a given impact and at most MaxValidators validators.
RulesOf(impacts) ==
    {RuleDefinition("R", impact, validators) :
        impact \in impacts, validators \in SeqsUpTo(Validators, MaxValidators)}

\* --------------------------------------------- one rule on one record file

NoRuleReturn == [err |-> FALSE, msg |-> <<>>,
                 result |-> EmptyRuleResult(RuleDefinition("", "", <<>>))]

\* A record file and a one-rule engine: the file is loaded and converted to
\* the two data sources, then the rule is evaluated on them.
InitRule ==
    /\ CollectorIdle
    /\ call = [pc |-> "unused"]
    /\ \E file \in RecordFiles, rule \in RulesOf({"Critical"}) :
          ev = [pc |-> "load", file |-> file, rule |-> rule, jobData |-> <<>>,
                dataSources |-> DataSources(<<>>, <<>>), ret |-> NoRuleReturn]

LoadReport ==
    /\ ev.pc = "load"
    /\ LET jobData == LoadJobMetricReport(ev.file) IN
       ev' = [ev EXCEPT
                !.jobData = jobData,
                !.dataSources =
                    DataSources(ConvertJobMetricToCardinality(jobData),
                                ConvertJobMetricToLabels(jobData)),
                !.pc = "evaluate"]
    /\ UNCHANGED <<collectorVars, call>>

EvaluateRule ==
    /\ ev.pc = "evaluate"
    /\ ev' = [ev EXCEPT !.ret = evaluateRule(ev.rule, ev.dataSources),
                        !.pc = "done"]
    /\ UNCHANGED <<collectorVars, call>>

NextRule ==
    \/ LoadReport
    \/ EvaluateRule

SpecRule == InitRule /\ [][NextRule]_vars

\* ------------------------------------------------ the score of results

MaxResults == 2

\* A rule result with the fields the score reads.
RuleResult(impact, passed, total, passedCard, totalCard) ==
    [EmptyRuleResult(RuleDefinition("R", impact, <<>>)) EXCEPT
        !.PassedMetrics = passed, !.TotalMetrics = total,
        !.PassedCardinality = passedCard, !.TotalCardinality = totalCard]

\* Counts of a result: <<passed metrics, total metrics, passed cardinality,
\* total cardinality>>, of labels-based rules, of cardinality rules and of a
\* rule that evaluated nothing.
ResultCounts ==
    {<<95, 100, 0, 0>>, <<1, 2, 0, 0>>, <<0, 0, 0, 0>>,
     <<4, 5, 40000, 50000>>, <<2, 2, 7, 7>>, <<3, 4, 0, 9>>}

Impacts == {"Critical", "Important", "Normal", "Low"}

RuleResults ==
    {RuleResult(impact, c[1], c[2], c[3], c[4]) :
        impact \in Impacts, c \in ResultCounts}

InitScore ==
    /\ CollectorIdle
    /\ call = [pc |-> "unused"]
    /\ \E results \in SeqsUpTo(RuleResults, MaxResults) :
          ev = [pc |-> "score", results |-> results, ret |-> Quotient(0, 1)]

Score ==
    /\ ev.pc = "score"
    /\ ev' = [ev EXCEPT !.ret = CalculateInstrumentationScore(ev.results),
                        !.pc = "done"]
    /\ UNCHANGED <<collectorVars, call>>

NextScore == Score

SpecScore == InitScore /\ [][NextScore]_vars

\* ------------------------------------------- a condition on the labels

MaxLabels == 2

status == <<"s", "t", "a", "t", "u", "s">>

\* The label lists of a record: at most MaxLabels labels.
LabelSlices == SeqsUpTo({method, status, USER, le}, MaxLabels)

\* Values of a condition on the labels field: substrings, patterns, a
\* pattern that does not compile, and a value that is not a string.
LabelValues ==
    {StringValue(<<"m", "e", "t", "h">>), StringValue(<<"u", "s", "e", "r">>),
     StringValue(<<"E">>),
     StringValue(<<"^", "[", "a", "-", "z", "]", "+", "$">>),
     StringValue(<<"^", "m", "e">>), StringValue(<<"[", "a">>),
     IntValue(1)}

LabelConditions ==
    {ConditionConfig("labels", operator, value) :
        operator \in {"not_contains", "contains", "matches"},
        value \in LabelValues}

InitLabels ==
    /\ CollectorIdle
    /\ call = [pc |-> "unused"]
    /\ \E labels \in LabelSlices, condition \in LabelConditions :
          ev = [pc |-> "labels", labels |-> labels, condition |-> condition,
                ret |-> FALSE]

EvaluateLabelsField ==
    /\ ev.pc = "labels"
    /\ ev' = [ev EXCEPT !.ret = evaluateLabelsField(ev.labels, ev.condition),
                        !.pc = "done"]
    /\ UNCHANGED <<collectorVars, call>>

NextLabels == EvaluateLabelsField

SpecLabels == InitLabels /\ [][NextLabels]_vars

\* ------------------------------------------------- exclusion filtering

MaxExclusions == 2

web == <<"w", "e", "b">>

\* Entries of an exclusion list: by exact name, by pattern (anchored, and
\* unanchored so that it is searched for inside the job name), with neither,
\* each for the whole job or for listed metrics, and one whose pattern does
\* not compile.
ExclusionEntries ==
    {ExclusionEntry(api, <<>>, <<>>),
     ExclusionEntry(api, <<>>, <<up>>),
     ExclusionEntry(<<>>, <<"^", "w">>, <<>>),
     ExclusionEntry(<<>>, <<"p">>, <<rpc, le>>),
     ExclusionEntry(<<>>, <<>>, <<>>),
     ExclusionEntry(<<>>, <<>>, <<up>>),
     ExclusionEntry(web, <<"[", "a">>, <<>>)}

ExclusionLists == SeqsUpTo(ExclusionEntries, MaxExclusions)

\* The metric names of the rows of a job, in file order.
MetricRows == SeqsUpTo({up, rpc, le}, MaxRows)

CardinalityRows(names) ==
    [i \in 1..Len(names) |-> CardinalityData(names[i], i)]

LabelsRows(names) ==
    [i \in 1..Len(names) |-> LabelsData(names[i], <<le>>)]

InitFilter ==
    /\ CollectorIdle
    /\ call = [pc |-> "unused"]
    /\ \E exclusionList \in ExclusionLists, jobName \in {api, web},
          names \in MetricRows :
          ev = [pc |-> "new",
                config |-> RulesConfig(exclusionList, <<>>),
                engine |-> NewRuleEngine(RulesConfig(<<>>, <<>>)),
                jobName |-> jobName,
                cardinalityData |-> CardinalityRows(names),
                labelsData |-> LabelsRows(names),
                ret |-> [cardinality |-> <<>>, labels |-> <<>>]]

\* NewRuleEngine; with an error there is no engine to filter with.
NewEngine ==
    /\ ev.pc = "new"
    /\ LET engine == NewRuleEngine(ev.config) IN
       ev' = [ev EXCEPT !.engine = engine,
                        !.pc = IF engine.err THEN "failed" ELSE "filter"]
    /\ UNCHANGED <<collectorVars, call>>

FilterMetrics ==
    /\ ev.pc = "filter"
    /\ ev' = [ev EXCEPT
                !.ret = FilterExcludedMetrics(ev.engine, ev.jobName,
                                              ev.cardinalityData, ev.labelsData),
                !.pc = "done"]
    /\ UNCHANGED <<collectorVars, call>>

NextFilter ==
    \/ NewEngine
    \/ FilterMetrics

SpecFilter == InitFilter /\ [][NextFilter]_vars

\* ------------------------------------------------------ evaluation runs

MaxFiles == 2

\* The record files of jobs: one metric; a positive and a negative
\* cardinality; no data line; another job; a metric without series.
JobFiles ==
    {<<HeaderLine, Join(<<api, up, le, <<"7">> >>, "|")>>,
     <<HeaderLine, Join(<<api, up, le, <<"7">> >>, "|"),
                   Join(<<api, rpc, le, <<"-", "5">> >>, "|")>>,
     <<HeaderLine>>,
     <<HeaderLine, Join(<<web, up, Join(<<method, USER>>, ","), <<"7">> >>, "|")>>,
     <<HeaderLine, Join(<<api, rpc, le, <<"0">> >>, "|")>>}

\* A validator no row passes.
RejectAll ==
    ValidatorConfig("many_labels", "label_count", "labels",
        <<ConditionConfig("label_count", "gt", IntValue(5))>>)

MaxCardinality ==
    ValidatorConfig("max_cardinality", "cardinality", "cardinality",
        <<ConditionConfig("count", "gte", IntValue(0)),
          ConditionConfig("count", "lte", IntValue(7))>>)

SnakeCase ==
    ValidatorConfig("snake_case", "format", "labels",
        <<ConditionConfig("metric_name", "matches",
             StringValue(<<"^", "[", "a", "-", "z", "]", "+", "$">>))>>)

WrongSource ==
    ValidatorConfig("wrong_source", "labels", "cardinality",
        <<ConditionConfig("labels", "contains", StringValue(le))>>)

\* A validator of a type the engine does not have.
UnknownType ==
    ValidatorConfig("buckets", "histogram", "labels",
        <<ConditionConfig("label_count", "lte", IntValue(5))>>)

\* Rule documents as yaml.Unmarshal decodes them: with and without
\* exclusions, a rule whose impact is missing, a validator that cannot be
\* evaluated, a pattern that does not compile, no rule at all, a rule that
\* rejects everything, and a validator of an unknown type.
RuleDocuments ==
    {RulesConfig(<<>>, <<RuleDefinition("R1", "Critical", <<MaxCardinality>>),
                         RuleDefinition("R2", "Important", <<SnakeCase>>)>>),
     RulesConfig(<<ExclusionEntry(api, <<>>, <<>>)>>,
                 <<RuleDefinition("R1", "Critical", <<MaxCardinality>>)>>),
     RulesConfig(<<ExclusionEntry(<<>>, <<"p">>, <<up>>)>>,
                 <<RuleDefinition("R1", "Critical", <<MaxCardinality>>),
                   RuleDefinition("R2", "Important", <<SnakeCase>>)>>),
     RulesConfig(<<>>, <<RuleDefinition("R3", "", <<SnakeCase>>)>>),
     RulesConfig(<<>>, <<RuleDefinition("R4", "Critical", <<WrongSource>>)>>),
     RulesConfig(<<ExclusionEntry(<<>>, <<"[", "a">>, <<>>)>>,
                 <<RuleDefinition("R1", "Critical", <<MaxCardinality>>)>>),
     RulesConfig(<<>>, <<>>),
     RulesConfig(<<>>, <<RuleDefinition("R5", "Low", <<RejectAll>>)>>),
     RulesConfig(<<>>, <<RuleDefinition("R1", "Critical", <<MaxCardinality>>),
                         RuleDefinition("R6", "Normal", <<UnknownType>>)>>)}

JobScoreResult(jobName, score, ruleResults) ==
    [JobName |-> jobName, Score |-> score, RuleResults |-> ruleResults]

NoJobScoreResult == JobScoreResult(<<>>, Quotient(0, 1), <<>>)

\* The end of an evaluation of one job: the error of EvaluateWithData, or
\* the job's score and results.
ScoreOf(jobName, evaluated) ==
    IF evaluated.err
    THEN [err |-> "evaluation", result |-> NoJobScoreResult]
    ELSE [err |-> "",
          result |-> JobScoreResult(jobName,
                        CalculateInstrumentationScore(evaluated.results),
                        evaluated.results)]

\* evaluateSingleJobFile once the excluded metrics are filtered out.
evaluateFiltered(jobName, filtered, ruleEngine) ==
    IF Len(filtered.cardinality) = 0 /\ Len(filtered.labels) = 0
    THEN [err |-> "no metrics remaining after exclusion filtering",
          result |-> NoJobScoreResult]
    ELSE ScoreOf(jobName, EvaluateWithData(ruleEngine.rules,
                              filtered.cardinality, filtered.labels))

\* evaluateSingleJobFile once the file is loaded.
evaluateLoaded(jobData, ruleEngine) ==
    IF Len(jobData) = 0
    THEN [err |-> "no metrics found", result |-> NoJobScoreResult]
    ELSE IF IsJobExcluded(ruleEngine, jobData[1].Job)
    THEN [err |-> "is excluded from evaluation", result |-> NoJobScoreResult]
    ELSE evaluateFiltered(jobData[1].Job,
             FilterExcludedMetrics(ruleEngine, jobData[1].Job,
                 ConvertJobMetricToCardinality(jobData),
                 ConvertJobMetricToLabels(jobData)),
             ruleEngine)

\* evaluateSingleJobFile: the job's result, or the error it returns.
evaluateSingleJobFile(file, ruleEngine) ==
    evaluateLoaded(LoadJobMetricReport(file), ruleEngine)

\* runSingleJobEvaluation once the file is loaded: the job's result, or the
\* error it exits with.
runSingleJobLoaded(jobData, ruleEngine) ==
    IF Len(jobData) = 0
    THEN [err |-> "no metrics found", result |-> NoJobScoreResult]
    ELSE IF ruleEngine.err
    THEN [err |-> "rule engine", result |-> NoJobScoreResult]
    ELSE ScoreOf(jobData[1].Job,
             EvaluateWithData(ruleEngine.rules,
                 ConvertJobMetricToCardinality(jobData),
                 ConvertJobMetricToLabels(jobData)))

runSingleJobEvaluation(file, config) ==
    runSingleJobLoaded(LoadJobMetricReport(file), NewRuleEngine(config))

\* What became of one job file of a run.
Processed(file, outcome, result) ==
    [file |-> file, outcome |-> outcome, result |-> result]

\* A run of the evaluate command on one job file or on a directory of
\* nFiles job files, with a rule document; the files are read as the run
\* gets to them.
InitEvaluate ==
    /\ CollectorIdle
    /\ call = [pc |-> "unused"]
    /\ \E mode \in {"single", "dir"}, config \in RuleDocuments,
          nFiles \in 1..MaxFiles :
          /\ mode = "single" => nFiles = 1
          /\ ev = [pc |-> "start", mode |-> mode, config |-> config,
                   nFiles |-> nFiles,
                   engine |-> NewRuleEngine(RulesConfig(<<>>, <<>>)),
                   processed |-> <<>>, allResults |-> <<>>,
                   excludedCount |-> 0, output |-> <<>>]

\* The report of runSingleJobEvaluation, or its exit.
SingleJobReported(file, r) ==
    IF r.err # ""
    THEN ev' = [ev EXCEPT
                  !.processed = <<Processed(file, "fatal", r.result)>>,
                  !.pc = "fatal"]
    ELSE ev' = [ev EXCEPT
                  !.processed = <<Processed(file, "scored", r.result)>>,
                  !.output = <<r.result>>,
                  !.pc = "done"]

\* runSingleJobEvaluation, from the load of the file to the report.
RunSingleJobEvaluation ==
    /\ ev.pc = "start"
    /\ ev.mode = "single"
    /\ \E file \in JobFiles :
          SingleJobReported(file, runSingleJobEvaluation(file, ev.config))
    /\ UNCHANGED <<collectorVars, call>>

\* runAllJobsEvaluation up to its loop.
StartAllJobs ==
    /\ ev.pc = "start"
    /\ ev.mode = "dir"
    /\ LET ruleEngine == NewRuleEngine(ev.config) IN
       ev' = [ev EXCEPT !.engine = ruleEngine,
                        !.pc = IF ruleEngine.err THEN "fatal" ELSE "loop"]
    /\ UNCHANGED <<collectorVars, call>>

\* What the loop of runAllJobsEvaluation does with the return of
\* evaluateSingleJobFile.
JobFileEvaluated(file, r) ==
    IF r.err \in {"is excluded from evaluation",
                  "no metrics remaining after exclusion filtering"}
    THEN ev' = [ev EXCEPT
                  !.excludedCount = @ + 1,
                  !.processed = Append(@, Processed(file, "excluded", r.result))]
    ELSE IF r.err # ""
    THEN ev' = [ev EXCEPT
                  !.processed = Append(@, Processed(file, "warning", r.result))]
    ELSE ev' = [ev EXCEPT
                  !.allResults = Append(@, r.result),
                  !.processed = Append(@, Processed(file, "scored", r.result))]

\* One iteration of the loop of runAllJobsEvaluation.
EvaluateJobFile ==
    /\ ev.pc = "loop"
    /\ Len(ev.processed) < ev.nFiles
    /\ \E file \in JobFiles :
          JobFileEvaluated(file, evaluateSingleJobFile(file, ev.engine))
    /\ UNCHANGED <<collectorVars, call>>

\* runAllJobsEvaluation after its loop: the report of the jobs evaluated.
ReportAllJobs ==
    /\ ev.pc = "loop"
    /\ Len(ev.processed) = ev.nFiles
    /\ ev' = [ev EXCEPT !.output = ev.allResults,
                        !.pc = IF Len(ev.allResults) = 0 THEN "fatal" ELSE "done"]
    /\ UNCHANGED <<collectorVars, call>>

NextEvaluate ==
    \/ RunSingleJobEvaluation
    \/ StartAllJobs
    \/ EvaluateJobFile
    \/ ReportAllJobs

SpecEvaluate == InitEvaluate /\ [][NextEvaluate]_vars

\* ------------------------------------------- rules on given data sources

MaxRules == 2

\* A validator that names a data source the run does not have.
MissingSource ==
    ValidatorConfig("spans", "labels", "traces",
        <<ConditionConfig("label_count", "lte", IntValue(5))>>)

\* Rules of an engine: two that evaluate, and three with a validator that
\* cannot be evaluated, alone or after one that can.
EngineRules ==
    {RuleDefinition("R1", "Critical", <<MaxCardinality>>),
     RuleDefinition("R2", "Important", <<SnakeCase>>),
     RuleDefinition("R4", "Critical", <<WrongSource>>),
     RuleDefinition("R6", "Normal", <<SnakeCase, UnknownType>>),
     RuleDefinition("R7", "Low", <<MaxCardinality, MissingSource>>)}

\* The dataSources map of EvaluateWithData (both keys) or of EvaluateRules
\* (the keys of dataFiles), filled from the records of a job.
DataSourcesOf(keys, jobData) ==
    [key \in keys |-> IF key = "cardinality"
                      THEN ConvertJobMetricToCardinality(jobData)
                      ELSE ConvertJobMetricToLabels(jobData)]

InitRules ==
    /\ CollectorIdle
    /\ call = [pc |-> "unused"]
    /\ \E rules \in SeqsUpTo(EngineRules, MaxRules),
          keys \in SUBSET {"cardinality", "labels"}, file \in JobFiles :
          ev = [pc |-> "evaluate", rules |-> rules,
                dataSources |-> DataSourcesOf(keys, LoadJobMetricReport(file)),
                ret |-> [err |-> FALSE, msg |-> <<>>, results |-> <<>>]]

EvaluateRules ==
    /\ ev.pc = "evaluate"
    /\ ev' = [ev EXCEPT !.ret = evaluateWithDataSources(ev.rules, ev.dataSources),
                        !.pc = "done"]
    /\ UNCHANGED <<collectorVars, call>>

NextRules == EvaluateRules

SpecRules == InitRules /\ [][NextRules]_vars

\* ------------------------------------------------- the category of a score

\* score >= n for a score kept as a quotient.
AtLeast(score, n) == score.num >= n * score.den

\* getScoreCategory of the formatters (Text, JSON, HTML of one job).
getScoreCategory(score) ==
    IF AtLeast(score, 90) THEN "Excellent"
    ELSE IF AtLeast(score, 75) THEN "Good"
    ELSE IF AtLeast(score, 50) THEN "Needs Improvement"
    ELSE "Poor"

\* The switch of printSummary that counts the jobs of each category.
printSummaryCategory(score) ==
    IF AtLeast(score, 90) THEN "Excellent"
    ELSE IF AtLeast(score, 75) THEN "Good"
    ELSE IF AtLeast(score, 50) THEN "Needs Improvement"
    ELSE "Poor"

\* int(math.Round(score)) of a score that is not negative: halves go up.
Round(score) == (2 * score.num + score.den) \div (2 * score.den)

\* The category generateHTMLReport gives a job, from the rounded score.
generateHTMLReportCategory(score) ==
    IF Round(score) >= 90 THEN "Excellent"
    ELSE IF Round(score) >= 75 THEN "Good"
    ELSE IF Round(score) >= 50 THEN "Needs Improvement"
    ELSE "Poor"

\* The scores from 0 to 100 in steps of a tenth.
Scores == {Quotient(n, 10) : n \in 0..1000}

InitCategory ==
    /\ CollectorIdle
    /\ call = [pc |-> "unused"]
    /\ \E score \in Scores :
          ev = [pc |-> "report", score |-> score,
                text |-> "", summary |-> "", html |-> ""]

\* The outputs of a run for a job with this score.
ReportCategories ==
    /\ ev.pc = "report"
    /\ ev' = [ev EXCEPT !.text = getScoreCategory(ev.score),
                        !.summary = printSummaryCategory(ev.score),
                        !.html = generateHTMLReportCategory(ev.score),
                        !.pc = "done"]
    /\ UNCHANGED <<collectorVars, call>>

NextCategory == ReportCategories

SpecCategory == InitCategory /\ [][NextCategory]_vars

\* ------------------------------------------------------- per-job files

\* sanitizeJobName: the characters a file name cannot hold become "_".
sanitizeJobName(jobName) ==
    [i \in 1..Len(jobName) |->
        IF jobName[i] \in {"/", "\\", ":", "*", "?", "\"", "<", ">", "|"}
        THEN "_" ELSE jobName[i]]

\* fmt.Sprintf("%d", n)
FormatInt(n) ==
    LET digits[k \in Nat] ==
            IF k < 10 THEN <<Digits[k + 1]>>
            ELSE Append(digits[k \div 10], Digits[(k % 10) + 1])
    IN IF n < 0 THEN <<"-">> \o digits[0 - n] ELSE digits[n]

\* The header WritePerJobFiles writes first to each file.
WrittenHeader ==
    <<"J", "O", "B", "|", "M", "E", "T", "R", "I", "C", "_", "N",
      "A", "M", "E", "|", "L", "A", "B", "E", "L", "S", "|", "C",
      "A", "R", "D", "I", "N", "A", "L", "I", "T", "Y", "|", "L",
      "A", "B", "E", "L", "_", "C", "A", "R", "D", "I", "N", "A",
      "L", "I", "T", "Y">>

\* label1:count1,label2:count2 for the labels of the record that have a count.
LabelCardinalityStr(data) ==
    IF data.LabelCardinality.nil \/ data.LabelCardinality.counts = {} THEN <<>>
    ELSE LET has(i) == \E p \in data.LabelCardinality.counts : p[1] = data.Labels[i]
             count(i) == (CHOOSE p \in data.LabelCardinality.counts :
                              p[1] = data.Labels[i])[2]
             parts[i \in 0..Len(data.Labels)] ==
                 IF i = 0 THEN <<>>
                 ELSE IF has(i)
                      THEN Append(parts[i - 1],
                                  data.Labels[i] \o <<":">> \o FormatInt(count(i)))
                      ELSE parts[i - 1]
         IN Join(parts[Len(data.Labels)], ",")

\* The line of a record, with its newline.
RecordLine(data) ==
    Join(<<data.Job, data.MetricName, Join(data.Labels, ","),
           data.Cardinality, LabelCardinalityStr(data)>>, "|") \o <<"\n">>

\* What the writer of a job has buffered at the end of the loop: the header
\* and the lines of the job's records in their order.
JobBuffer(records, job) ==
    LET buffer[i \in 0..Len(records)] ==
            IF i = 0 THEN WrittenHeader \o <<"\n">>
            ELSE IF records[i].Job = job
                 THEN buffer[i - 1] \o RecordLine(records[i])
                 ELSE buffer[i - 1]
    IN buffer[Len(records)]

\* A flush writes the buffer from offset 0 of the file: bytes of the file
\* beyond the buffer's length stay.
Flush(content, buffer) ==
    buffer \o SubSeq(content, Len(buffer) + 1, Len(content))

\* The jobs of the records whose file could be created.
WrittenJobs(records, failedPaths) ==
    {records[i].Job : i \in 1..Len(records)} \
        {job \in {records[i].Job : i \in 1..Len(records)} :
            sanitizeJobName(job) \in failedPaths}

\* The orders in which the deferred loop over the map of writers can flush.
FlushOrders(jobs) ==
    {order \in [1..Cardinality(jobs) -> jobs] :
        \A i, k \in 1..Cardinality(jobs) : i # k => order[i] # order[k]}

\* WritePerJobFiles on records that fit the writers' buffers: every job's
\* file is created and truncated in the loop, and the buffers are flushed on
\* return in the order of the map. The result maps each path (the sanitized
\* job name) to the content of its file.
WritePerJobFiles(records, failedPaths, order) ==
    LET paths == {sanitizeJobName(order[i]) : i \in 1..Len(order)}
        content(path) ==
            LET flushed[i \in 0..Len(order)] ==
                    IF i = 0 THEN <<>>
                    ELSE LET before == flushed[i - 1] IN
                         IF sanitizeJobName(order[i]) = path
                         THEN Flush(before, JobBuffer(records, order[i]))
                         ELSE before
            IN flushed[Len(order)]
    IN [path \in paths |-> content(path)]

\* The lines bufio.Scanner gives for a content: the text before each
\* newline, and the text after the last one unless it is empty.
ScanLines(content) ==
    LET ends == {i \in 1..Len(content) : content[i] = "\n"}
                    \cup (IF Len(content) > 0 /\ content[Len(content)] # "\n"
                          THEN {Len(content) + 1} ELSE {})
        start(e) == IF \E i \in ends : i < e
                    THEN (CHOOSE i \in ends :
                             i < e /\ \A k \in ends : k < e => k <= i) + 1
                    ELSE 1
        end(n) == CHOOSE e \in ends : Cardinality({i \in ends : i < e}) = n - 1
    IN [n \in 1..Cardinality(ends) |-> SubSeq(content, start(end(n)), end(n) - 1)]

MaxRecords == 3

slashJob == <<"a", "/", "b">>
underscoreJob == <<"a", "_", "b">>
pipeJob == <<"a", "|", "b">>

\* Records of a collection: jobs whose names differ in characters that the
\* sanitizer replaces, with and without labels and per-label counts.
CollectedRecords ==
    {JobMetricData(slashJob, up, <<le>>, <<"7">>, NilMap),
     JobMetricData(underscoreJob, up, <<le>>, <<"7">>, NilMap),
     JobMetricData(underscoreJob, rpc, <<method, USER>>, <<"1", "2">>,
                   MapOf({<<method, 3>>, <<USER, 12>>})),
     JobMetricData(slashJob, rpc, <<>>, <<"0">>, MapOf({})),
     JobMetricData(pipeJob, up, <<le>>, <<"7">>, NilMap),
     JobMetricData(api, up, <<le, method>>, <<"7">>, MapOf({<<le, 10>>}))}

NoFiles == [path \in {} |-> <<>>]

InitWrite ==
    /\ CollectorIdle
    /\ call = [pc |-> "unused"]
    /\ \E records \in SeqsUpTo(CollectedRecords, MaxRecords) :
          ev = [pc |-> "write", records |-> records, failedPaths |-> {},
                files |-> NoFiles, path |-> <<>>, loaded |-> <<>>]

\* WritePerJobFiles; any of the files may fail to be created.
WriteFiles ==
    /\ ev.pc = "write"
    /\ \E failedPaths \in SUBSET {sanitizeJobName(ev.records[i].Job) :
                                     i \in 1..Len(ev.records)} :
         \E order \in FlushOrders(WrittenJobs(ev.records, failedPaths)) :
            ev' = [ev EXCEPT !.pc = "written", !.failedPaths = failedPaths,
                             !.files = WritePerJobFiles(ev.records, failedPaths, order)]
    /\ UNCHANGED <<collectorVars, call>>

\* LoadJobMetricReport on one of the written files.
LoadWrittenFile ==
    /\ ev.pc = "written"
    /\ \E path \in DOMAIN ev.files :
          ev' = [ev EXCEPT !.pc = "loaded", !.path = path,
                           !.loaded = LoadJobMetricReport(ScanLines(ev.files[path]))]
    /\ UNCHANGED <<collectorVars, call>>

NextWrite == WriteFiles \/ LoadWrittenFile

SpecWrite == InitWrite /\ [][NextWrite]_vars

\* ------------------------------------------------- loading a record file

MaxLines == 3

\* Lines of a file given to LoadJobMetricReport: the header, records of four
\* and five columns, a blank line, a comment, a line of three columns and a
\* line whose cardinality is not a number.
FileLines ==
    {HeaderLine,
     Join(<<api, up, Join(<<method, status>>, ","), <<"1", "5", "0">> >>, "|"),
     Join(<<api, rpc, le, <<"1", "2">>, le \o <<":", "3">> >>, "|"),
     <<" ">>,
     <<"#", "c">>,
     Join(<<api, up, le>>, "|"),
     Join(<<api, rpc, le, <<"x">> >>, "|")}

InitLoad ==
    /\ CollectorIdle
    /\ call = [pc |-> "unused"]
    /\ \E file \in SeqsUpTo(FileLines, MaxLines) :
          ev = [pc |-> "load", file |-> file, data |-> <<>>]

\* LoadJobMetricReport on a file that opens and is read to its end.
LoadFile ==
    /\ ev.pc = "load"
    /\ ev' = [ev EXCEPT !.pc = "done", !.data = LoadJobMetricReport(ev.file)]
    /\ UNCHANGED <<collectorVars, call>>

NextLoad == LoadFile

SpecLoad == InitLoad /\ [][NextLoad]_vars

\* ------------------------------------------- the retry loop, any count

\* SetRetryCount, and the --retry-failures-count flag handed to it: the
\* count is stored as given.
SetRetryCount(count) == count

\* What doRequestWithRetry returns: a response or nil, an error or nil.
RetryReturn(response, error) == [response |-> response, error |-> error]

\* A client whose retry count was set to any integer, negative ones included.
InitRetry ==
    /\ CollectorIdle
    /\ call = [pc |-> "unused"]
    /\ \E count \in (0 - 1)..MaxRetry :
          ev = [pc |-> "loop", RetryCount |-> SetRetryCount(count),
                attempt |-> 0, history |-> <<>>,
                ret |-> RetryReturn(FALSE, FALSE)]

\* One iteration of the loop of doRequestWithRetry: the transport attempt
\* and the decision to go round again or to return.
RetryIteration ==
    /\ ev.pc = "loop"
    /\ ev.attempt <= ev.RetryCount
    /\ \E o \in Outcomes :
          LET step == RetryStep(ev.attempt, ev.RetryCount, o) IN
          ev' = [ev EXCEPT
                   !.history = Append(@, o),
                   !.attempt = IF step = "continue" THEN @ + 1 ELSE @,
                   !.ret = IF step = "returnError" THEN RetryReturn(FALSE, TRUE)
                           ELSE IF step = "returnResponse"
                                THEN RetryReturn(TRUE, FALSE)
                           ELSE @,
                   !.pc = IF step = "continue" THEN "loop" ELSE "returned"]
    /\ UNCHANGED <<collectorVars, call>>

\* The loop condition is false: the return after the loop hands back resp
\* and lastErr as the iterations left them.
RetryLoopExit ==
    /\ ev.pc = "loop"
    /\ ev.attempt > ev.RetryCount
    /\ ev' = [ev EXCEPT
                !.ret = RetryReturn(
                    Len(ev.history) > 0 /\ ~ev.history[Len(ev.history)].err,
                    Len(ev.history) > 0 /\ ev.history[Len(ev.history)].err),
                !.pc = "returned"]
    /\ UNCHANGED <<collectorVars, call>>

NextRetry == RetryIteration \/ RetryLoopExit

SpecRetry == InitRetry /\ [][NextRetry]_vars

\* ================================================================== claims

\* The records and error entries CollectMetrics returned for a pair.
RecordsOf(m, j) ==
    {i \in 1..Len(retData) : retData[i].Job = j /\ retData[i].MetricName = m}

ErrorsOf(m) == {i \in 1..Len(retErrors) : retErrors[i].MetricName = m}

Discovered(m) == Range(mt[m].jobNames)

\* ---- C1
\* C1: when a run whose catalog fetch succeeded returns, every job that the
\* job discovery of a catalog metric returned is accounted for by exactly one
\* of a returned record and a returned error entry, whatever the outcome of
\* its cardinality and label fetches.
C1_EveryPairAccounted ==
    (mainPc = "done" /\ ~retErr) =>
        \A m \in Range(metricNames) : \A j \in Discovered(m) :
            (RecordsOf(m, j) # {}) # (ErrorsOf(m) # {})

\* ---- C2
\* C2: a failed cardinality or label fetch of one job aborts nothing else:
\* when the run returns, every pair whose two fetches succeeded has its
\* record, every catalog metric has been processed, and the returned error
\* is nil.
C2_FailureDoesNotAbortSiblings ==
    (mainPc = "done" /\ \E m \in MetricIds, j \in JobIds : t1[m][j].fetch = "failed") =>
        /\ ~retErr
        /\ processed = Len(metricNames)
        /\ \A m \in Range(metricNames) :
              /\ mt[m].pc = "done"
              /\ \A j \in JobIds : t1[m][j].fetch = "ok" => RecordsOf(m, j) # {}

\* A run has returned in which job 1 of metric 1 failed a fetch while its
\* sibling job 2 and the other metric each have their record.
C2_Witness ==
    /\ mainPc = "done"
    /\ t1[1][1].fetch = "failed"
    /\ RecordsOf(1, 2) # {}
    /\ \E j \in JobIds : RecordsOf(2, j) # {}

\* ---- C3
\* C3: CollectMetrics returns a non-nil error exactly when the fetch of the
\* metric-name catalog failed, and then returns no record and no error entry
\* and has called the client for nothing but the catalog.
C3_ErrorIffCatalogFetchFailed ==
    mainPc = "done" =>
        /\ retErr <=> (catalogFetch = "failed")
        /\ retErr => (retData = <<>> /\ retErrors = <<>> /\ requests = {"names"})

\* ---- C4
C4_Transient(o) == o.err \/ o.status \in {502, 503, 504}

C4_LoopReturned == call.pc # "request"

C4_RequestReturned == call.pc \in {"GetLabels", "done"}

C5_RateLimitNeverRetried ==
    (call.op # "GetAllMetricNames" /\ call.limitedAt # 0) =>
        /\ call.total = call.limitedAt
        /\ call.pc = "done" => call.result.err

\* ---- C6
\* C6: an operation that was answered with a non-2xx status the client does
\* not retry returns an error, never a successful result.
C6_RefusedResponseIsAnError ==
    (call.pc = "done" /\ call.refused) => call.result.err

\* ---- C7
RunningMetrics == {m \in MetricIds : mt[m].pc \notin {"idle", "done"}}

FetchesInFlight(m) == {j \in JobIds : t1[m][j].pc \in {"cardinality", "labels"}}

LabelCardinalityInFlight(m) == {j \in JobIds : t2[m][j].pc = "labelCardinality"}

\* C7: at any time the metrics being processed number at most the tier-1
\* width, and for each metric the jobs with a cardinality/label fetch in
\* flight number at most the tier-2 width and the jobs with a label
\* cardinality fetch in flight at most the tier-3 width.
C7_SemaphoresBoundTheirTiers ==
    /\ Cardinality(RunningMetrics) <= maxConcurrentMetrics
    /\ \A m \in MetricIds :
          /\ Cardinality(FetchesInFlight(m)) <= maxConcurrentJobs
          /\ Cardinality(LabelCardinalityInFlight(m)) <= maxConcurrentLabelCardinality

\* Tiers 1 and 2 are both full with work left: a metric waits for a tier-1
\* slot while a job of the running metric waits for a tier-2 slot.
C7_Witness ==
    /\ mainPc = "loop"
    /\ nextMetric <= Len(metricNames)
    /\ Cardinality(RunningMetrics) = maxConcurrentMetrics
    /\ \E m \in MetricIds :
          /\ mt[m].pc = "phase1"
          /\ mt[m].nextJob <= Len(mt[m].jobNames)
          /\ Cardinality(FetchesInFlight(m)) = maxConcurrentJobs

\* ---- C8
Sum(f) ==
    LET S[D \in SUBSET MetricIds] ==
            IF D = {} THEN 0
            ELSE LET m == CHOOSE x \in D : TRUE IN f[m] + S[D \ {m}]
    IN S[MetricIds]

TotalFetchesInFlight == Sum([m \in MetricIds |-> Cardinality(FetchesInFlight(m))])

TotalLabelCardinalityInFlight ==
    Sum([m \in MetricIds |-> Cardinality(LabelCardinalityInFlight(m))])

\* C8 (as stated): over all metrics processed at the same time, the fetches
\* in flight never exceed the tier-2 width nor the label cardinality fetches
\* the tier-3 width.
C8_LimitsAreGlobal ==
    /\ TotalFetchesInFlight <= maxConcurrentJobs
    /\ TotalLabelCardinalityInFlight <= maxConcurrentLabelCardinality

\* C8 (amended): the tier-2 and tier-3 semaphores are made per metric, so
\* over all metrics processed at the same time the fetches in flight never
\* exceed tier-1 width x tier-2 width, nor the label cardinality fetches
\* tier-1 width x tier-3 width.
C8_LimitsArePerMetric ==
    /\ TotalFetchesInFlight <= maxConcurrentMetrics * maxConcurrentJobs
    /\ TotalLabelCardinalityInFlight
          <= maxConcurrentMetrics * maxConcurrentLabelCardinality

\* With a tier-2 width of 1, two metrics each have a fetch in flight.
C8_Witness ==
    /\ maxConcurrentJobs = 1
    /\ maxConcurrentMetrics = 2
    /\ TotalFetchesInFlight = 2

\* ---- C9
\* C9: with label cardinality collection enabled, GetLabelCardinality is
\* called only for a non-empty label list; and when the run returns, every
\* pair whose cardinality and label fetches succeeded has exactly one record,
\* whose per-label map is nil when the label cardinality fetch failed and
\* whose label list is empty exactly when that fetch was not made.
C9_LabelCardinalityFailureKeepsRecord ==
    collectLabelCardinality =>
        /\ \A m \in MetricIds, j \in JobIds :
              t2[m][j].pc = "labelCardinality" => Len(t2[m][j].d.labels) > 0
        /\ mainPc = "done" =>
              \A m \in Range(metricNames), j \in JobIds :
                  t1[m][j].fetch = "ok" =>
                      /\ Cardinality(RecordsOf(m, j)) = 1
                      /\ \A i \in RecordsOf(m, j) :
                            /\ t2[m][j].fetch \in {"ok", "failed", "skipped"}
                            /\ t2[m][j].fetch = "failed" =>
                                  retData[i].LabelCardinality = NilMap
                            /\ t2[m][j].fetch = "ok" =>
                                  ~retData[i].LabelCardinality.nil
                            /\ (t2[m][j].fetch = "skipped") <=>
                                  (retData[i].Labels = <<>>)

\* A run with label cardinality collection has returned the record of a pair
\* whose label cardinality fetch failed.
C9_Witness ==
    /\ collectLabelCardinality
    /\ mainPc = "done"
    /\ \E m \in MetricIds, j \in JobIds :
          /\ t2[m][j].fetch = "failed"
          /\ RecordsOf(m, j) # {}

\* ---- C10
EntriesOf(list, j) == {i \in 1..Len(list) : list[i].job = j}

ResultsOf(list, m, j) ==
    {i \in 1..Len(list) : list[i].Job = j /\ list[i].MetricName = m}

\* C10: an append to a shared accumulator is made only by the goroutine
\* holding its mutex (one at a time, between its read and its write of the
\* list); each list holds each finished contribution exactly once and no
\* other; and the returned records hold at most one record per
\* (job, metric name).
C10_AppendsUnderMutex ==
    /\ Cardinality({m \in MetricIds : mt[m].pc = "appendErrors"})
          = (IF errorsMu THEN 1 ELSE 0)
    /\ Cardinality({m \in MetricIds : mt[m].pc = "appendData"})
          = (IF dataMu THEN 1 ELSE 0)
    /\ \A m \in MetricIds :
          /\ Cardinality({j \in JobIds : t1[m][j].pc = "append"})
                = (IF mt[m].mu THEN 1 ELSE 0)
          /\ Cardinality({j \in JobIds : t2[m][j].pc = "append"})
                = (IF mt[m].mu2 THEN 1 ELSE 0)
          /\ mt[m].pc \in {"phase1", "phase2"} =>
                \A j \in JobIds :
                    Cardinality(EntriesOf(mt[m].basicData, j))
                        = (IF t1[m][j].pc = "done" /\ t1[m][j].fetch = "ok"
                           THEN 1 ELSE 0)
          /\ mt[m].pc = "phase2" =>
                \A j \in JobIds :
                    Cardinality(ResultsOf(mt[m].results, m, j))
                        = (IF t2[m][j].pc = "done" THEN 1 ELSE 0)
          /\ \A j \in JobIds :
                Cardinality(ResultsOf(allData, m, j))
                    = (IF mt[m].pc \in {"exit", "done"} /\ t1[m][j].fetch = "ok"
                       THEN 1 ELSE 0)
          /\ Cardinality({i \in 1..Len(errors) : errors[i].MetricName = m})
                = (IF mt[m].pc \in {"exit", "done"} /\ mt[m].err THEN 1 ELSE 0)
    /\ mainPc = "done" /\ ~retErr =>
          /\ retData = allData
          /\ retErrors = errors
          /\ \A i, k \in 1..Len(retData) :
                (retData[i].Job = retData[k].Job
                    /\ retData[i].MetricName = retData[k].MetricName) => i = k

\* Two goroutines of metric 1 contend for the mutex of its per-job list: one
\* is between its read and its write of the list, the other waits.
C10_Witness ==
    /\ t1[1][1].pc = "append"
    /\ t1[1][2].pc = "lock"

\* ---- C11
\* C11: in the result of evaluating a rule on the records loaded from a
\* record file, 0 <= PassedMetrics <= TotalMetrics and
\* 0 <= PassedCardinality <= TotalCardinality.
C11_PassedWithinTotal ==
    (ev.pc = "done" /\ ~ev.ret.err) =>
        /\ 0 <= ev.ret.result.PassedMetrics
        /\ ev.ret.result.PassedMetrics <= ev.ret.result.TotalMetrics
        /\ 0 <= ev.ret.result.PassedCardinality
        /\ ev.ret.result.PassedCardinality <= ev.ret.result.TotalCardinality

\* ---- C15
C15_UsesCardinality(rule) ==
    \E k \in 1..Len(rule.Validators) :
        rule.Validators[k].DataSource = "cardinality"

\* C15: the result of a rule evaluated on a non-empty record set has
\* TotalCardinality = 0 exactly when no validator of the rule used the
\* cardinality data source.
C15_ZeroIffNoCardinalityValidator ==
    (ev.pc = "done" /\ ~ev.ret.err /\ ev.jobData # <<>>) =>
        ((ev.ret.result.TotalCardinality = 0) <=> ~C15_UsesCardinality(ev.rule))

\* ---- C19
C19_Rows(validator) ==
    IF validator.DataSource = "cardinality" THEN ev.dataSources.cardinality
    ELSE ev.dataSources.labels

\* Every condition of the validator holds on the row.
C19_Holds(validator, row) ==
    \A i \in 1..Len(validator.Conditions) :
        IF validator.DataSource = "cardinality"
        THEN CardinalityConditionMet(row, validator.Conditions[i])
        ELSE LabelsConditionMet(row, validator.Conditions[i])

\* The rows of metric m that the validator rejected.
C19_Rejected(validator, m) ==
    {i \in 1..Len(C19_Rows(validator)) :
        /\ C19_Rows(validator)[i].MetricName = m
        /\ ~C19_Holds(validator, C19_Rows(validator)[i])}

C19_Passed(validator) ==
    {i \in 1..Len(C19_Rows(validator)) :
        C19_Holds(validator, C19_Rows(validator)[i])}

SumSeq(f) ==
    LET S[k \in 0..Len(f)] == IF k = 0 THEN 0 ELSE S[k - 1] + f[k] IN S[Len(f)]

\* The names of the validators, in rule order, each as many times as it
\* rejected a row of metric m.
C19_Rejecters(validators, m) ==
    LET L[k \in 0..Len(validators)] ==
            IF k = 0 THEN <<>>
            ELSE L[k - 1] \o [n \in 1..Cardinality(C19_Rejected(validators[k], m))
                                |-> validators[k].Name]
    IN L[Len(validators)]

C19_MetricNames == {ev.jobData[i].MetricName : i \in 1..Len(ev.jobData)}

C19_Listed(m) ==
    IF m \in DOMAIN ev.ret.result.FailedMetrics
    THEN ev.ret.result.FailedMetrics[m] ELSE <<>>

C20_NumericOperators == {"lt", "lte", "gt", "gte", "eq"}

C20_StringOperators == {"matches", "contains", "not_contains", "eq"}

\* The operators defined for a field of a data view; none for a field the
\* view does not have.
C20_Operators(view, field) ==
    CASE view = "cardinality" /\ field = "count" -> C20_NumericOperators
      [] field = "metric_name" -> C20_StringOperators
      [] view = "labels" /\ field = "labels" -> C20_StringOperators
      [] view = "labels" /\ field = "label_count" -> C20_NumericOperators
      [] OTHER -> {}

C20_Misconfigured(validator) ==
    \E i \in 1..Len(validator.Conditions) :
        validator.Conditions[i].Operator
            \notin C20_Operators(validator.DataSource, validator.Conditions[i].Field)

\* C20: evaluating, on at least one row, a rule with a condition whose field
\* is unknown for the validator's data view or whose operator is not defined
\* for the field returns an error.
C20_UnknownFieldOrOperatorIsAnError ==
    (/\ ev.pc = "done"
     /\ ev.jobData # <<>>
     /\ \E k \in 1..Len(ev.rule.Validators) :
           C20_Misconfigured(ev.rule.Validators[k])) => ev.ret.err

\* ---- C13
C13_Weight(impact) ==
    CASE impact = "Critical" -> 40
      [] impact = "Important" -> 30
      [] impact = "Normal" -> 20
      [] impact = "Low" -> 10

C13_Numerator(r) ==
    IF r.TotalCardinality > 0 THEN r.PassedCardinality * C13_Weight(r.Impact)
    ELSE r.PassedMetrics * C13_Weight(r.Impact)

C13_Denominator(r) ==
    IF r.TotalCardinality > 0 THEN r.TotalCardinality * C13_Weight(r.Impact)
    ELSE r.TotalMetrics * C13_Weight(r.Impact)

C13_Numerators(results) ==
    SumSeq([i \in 1..Len(results) |-> C13_Numerator(results[i])])

C13_Denominators(results) ==
    SumSeq([i \in 1..Len(results) |-> C13_Denominator(results[i])])

C18_ContainsFold(label, value) ==
    \E i \in 0..(Len(label) - Len(value)) :
        \A k \in 1..Len(value) :
            ToLowerChar(label[i + k]) = ToLowerChar(value[k])

C18_LowerWord(label) ==
    Len(label) > 0 /\ \A k \in 1..Len(label) : label[k] \in Range(Lower)

\* The label matches the pattern, for the patterns of LabelValues: one or
\* more lower-case letters from start to end, the prefix "me", a literal
\* found anywhere in the label; nothing matches a pattern that does not
\* compile.
C18_Matches(label, pattern) ==
    CASE pattern = <<"^", "[", "a", "-", "z", "]", "+", "$">> -> C18_LowerWord(label)
      [] pattern = <<"^", "m", "e">> ->
            Len(label) >= 2 /\ label[1] = "m" /\ label[2] = "e"
      [] pattern = <<"[", "a">> -> FALSE
      [] OTHER ->
            \E i \in 0..(Len(label) - Len(pattern)) :
                \A k \in 1..Len(pattern) : label[i + k] = pattern[k]

\* C18: a condition with a string value on the labels field of a label
\* list, the empty one included, passes under not_contains iff no label
\* contains the value (case-insensitive), under contains iff at least one
\* label does, and under matches iff every label matches the pattern.
C18_LabelsFieldOperators ==
    (ev.pc = "done" /\ ev.condition.Value.type = "string") =>
        LET value == ev.condition.Value.str
            labels == Range(ev.labels)
        IN
        CASE ev.condition.Operator = "not_contains" ->
                ev.ret <=> ~(\E l \in labels : C18_ContainsFold(l, value))
          [] ev.condition.Operator = "contains" ->
                ev.ret <=> (\E l \in labels : C18_ContainsFold(l, value))
          [] ev.condition.Operator = "matches" ->
                ev.ret <=> (\A l \in labels : C18_Matches(l, value))

\* The label set {method, USER} was evaluated under matches ^[a-z]+$ and
\* failed.
C18_Witness ==
    /\ ev.pc = "done"
    /\ ev.labels = <<method, USER>>
    /\ ev.condition = ConditionConfig("labels", "matches",
            StringValue(<<"^", "[", "a", "-", "z", "]", "+", "$">>))
    /\ ev.ret = FALSE

\* ---- C17
\* The pattern is found in the job name, for the patterns of
\* ExclusionEntries: "^w" at its start, "p" anywhere.
C17_PatternFound(pattern, jobName) ==
    CASE pattern = <<"^", "w">> -> Len(jobName) > 0 /\ jobName[1] = "w"
      [] pattern = <<"p">> -> "p" \in Range(jobName)

C17_EntryMatches(entry, jobName) ==
    \/ entry.Job # <<>> /\ entry.Job = jobName
    \/ entry.JobNamePattern # <<>> /\ C17_PatternFound(entry.JobNamePattern, jobName)

C17_Excluded(metricName) ==
    \E i \in 1..Len(ev.config.ExclusionList) :
        /\ C17_EntryMatches(ev.config.ExclusionList[i], ev.jobName)
        /\ \/ ev.config.ExclusionList[i].Metrics = <<>>
           \/ metricName \in Range(ev.config.ExclusionList[i].Metrics)

C17_Kept(rows) == SelectSeq(rows, LAMBDA row : ~C17_Excluded(row.MetricName))

\* C17: FilterExcludedMetrics returns, in the original order, exactly the
\* rows of each data source whose metric is not excluded for the job: a
\* metric is excluded iff some entry matches the job, by its exact name or by
\* its pattern, and lists no metric or lists this one; a list whose entries
\* have neither an exact name nor a pattern removes nothing.
C17_FilterKeepsExactlyTheNotExcluded ==
    (ev.pc = "done") =>
        /\ ev.ret.cardinality = C17_Kept(ev.cardinalityData)
        /\ ev.ret.labels = C17_Kept(ev.labelsData)
        /\ (\A i \in 1..Len(ev.config.ExclusionList) :
                /\ ev.config.ExclusionList[i].Job = <<>>
                /\ ev.config.ExclusionList[i].JobNamePattern = <<>>) =>
              /\ ev.ret.cardinality = ev.cardinalityData
              /\ ev.ret.labels = ev.labelsData

\* Job api with rows up, rpc was filtered by a list holding an entry with
\* neither name nor pattern and the entry that excludes up for api: rpc is
\* what is left.
C17_Witness ==
    /\ ev.pc = "done"
    /\ ev.jobName = api
    /\ ev.config.ExclusionList = <<ExclusionEntry(<<>>, <<>>, <<>>),
                                   ExclusionEntry(api, <<>>, <<up>>)>>
    /\ ev.cardinalityData = CardinalityRows(<<up, rpc>>)
    /\ ev.ret.cardinality = <<CardinalityData(rpc, 2)>>
    /\ ev.ret.labels = <<LabelsData(rpc, <<le>>)>>

\* ---- C12
\* The quotient is a number from 0 to 100.
C12_InRange(score) ==
    \/ score.den > 0 /\ 0 <= score.num /\ score.num <= 100 * score.den
    \/ score.den < 0 /\ 0 >= score.num /\ score.num >= 100 * score.den

\* C12: the score of every job that an evaluation run scored, computed from
\* the results the engine produced for the job's loaded records, is in
\* [0,100], and is exactly 0 when the denominators sum to 0.
C12_ScoreWithinBounds ==
    \A k \in 1..Len(ev.processed) :
        ev.processed[k].outcome = "scored" =>
            /\ C12_InRange(ev.processed[k].result.Score)
            /\ ScoreSums(ev.processed[k].result.RuleResults).denominator = 0
                  => ev.processed[k].result.Score = Quotient(0, 1)

\* ---- C14
C14_EveryValidatorPassesAll(results) ==
    \A i \in 1..Len(results) : \A k \in 1..Len(results[i].ValidatorStats) :
        results[i].ValidatorStats[k].PassedMetrics
            = results[i].ValidatorStats[k].TotalMetrics

C14_EveryValidatorRejectsAll(results) ==
    \A i \in 1..Len(results) : \A k \in 1..Len(results[i].ValidatorStats) :
        results[i].ValidatorStats[k].PassedMetrics = 0

\* C14: a job with records scored under a loaded rule set with at least one
\* rule, each with at least one validator, scores 100 if every validator
\* passed every metric and 0 if every validator rejected every metric.
C14_AllPassIs100AllRejectIs0 ==
    \A k \in 1..Len(ev.processed) :
        LET results == ev.processed[k].result.RuleResults
            score == ev.processed[k].result.Score
        IN
        (/\ ev.processed[k].outcome = "scored"
         /\ Len(results) > 0
         /\ \A i \in 1..Len(results) : Len(results[i].ValidatorStats) > 0) =>
            /\ C14_EveryValidatorPassesAll(results) =>
                  score.den # 0 /\ score.num = 100 * score.den
            /\ C14_EveryValidatorRejectsAll(results) => score.num = 0

\* ---- C16
C16_Excludes(entry, jobName, metricName) ==
    /\ C17_EntryMatches(entry, jobName)
    /\ entry.Metrics = <<>> \/ metricName \in Range(entry.Metrics)

\* The exclusion list excludes the whole job.
C16_FullyExcluded(jobName) ==
    \E i \in 1..Len(ev.config.ExclusionList) :
        /\ C17_EntryMatches(ev.config.ExclusionList[i], jobName)
        /\ ev.config.ExclusionList[i].Metrics = <<>>

\* Exclusion filtering removes every record of the job.
C16_AllMetricsExcluded(jobData) ==
    \A r \in 1..Len(jobData) :
        \E i \in 1..Len(ev.config.ExclusionList) :
            C16_Excludes(ev.config.ExclusionList[i], jobData[r].Job,
                         jobData[r].MetricName)

C16_IsExcluded(file) ==
    LET jobData == LoadJobMetricReport(file) IN
    /\ Len(jobData) > 0
    /\ C16_FullyExcluded(jobData[1].Job) \/ C16_AllMetricsExcluded(jobData)

\* C16: in a single-file run and in a directory run, a job that the
\* exclusion list excludes as a whole, or all of whose metrics it excludes,
\* is never scored, and in a directory run it is one of the jobs counted as
\* excluded, which are exactly those jobs.
C16_ExcludedJobIsNeverScored ==
    /\ \A k \in 1..Len(ev.processed) :
          ev.processed[k].outcome = "scored" =>
              ~C16_IsExcluded(ev.processed[k].file)
    /\ ev.mode = "dir" =>
          /\ \A k \in 1..Len(ev.processed) :
                (ev.processed[k].outcome = "excluded")
                    <=> C16_IsExcluded(ev.processed[k].file)
          /\ ev.excludedCount
                = Cardinality({k \in 1..Len(ev.processed) :
                                 ev.processed[k].outcome = "excluded"})

\* ---- C21
C21_ValidatorTypes == {"cardinality", "format", "labels", "label_count"}

\* The pattern compiles, for the patterns of RuleDocuments.
C21_Compiles(pattern) == pattern # <<"[", "a">>

\* The document has every required field, only known validator types and
\* only exclusion patterns that compile.
C21_SchemaValid(config) ==
    /\ \A i \in 1..Len(config.ExclusionList) :
          C21_Compiles(config.ExclusionList[i].JobNamePattern)
    /\ \A i \in 1..Len(config.Rules) :
          /\ config.Rules[i].RuleID # ""
          /\ config.Rules[i].Impact # ""
          /\ Len(config.Rules[i].Validators) > 0
          /\ \A k \in 1..Len(config.Rules[i].Validators) :
                /\ config.Rules[i].Validators[k].Name # ""
                /\ config.Rules[i].Validators[k].DataSource # ""
                /\ config.Rules[i].Validators[k].Type \in C21_ValidatorTypes

\* NewRuleEngine returned an engine to the run.
C21_EngineLoaded ==
    \/ ev.mode = "dir" /\ ev.pc \in {"loop", "done"}
    \/ \E k \in 1..Len(ev.processed) : ev.processed[k].outcome = "scored"

\* C21: a run gets an engine, and scores a job with it, only from a rule
\* document that has every required field, no unknown validator type and
\* no exclusion pattern that does not compile.
C21_LoadFailsOnSchemaViolation == C21_EngineLoaded => C21_SchemaValid(ev.config)

\* ---- C22
\* The validator ends in an evaluation error: its data source is missing,
\* holds data of the wrong type for it, or its type is unknown.
C22_Fails(validator) ==
    \/ validator.DataSource \notin DOMAIN ev.dataSources
    \/ validator.Type \notin C21_ValidatorTypes
    \/ validator.Type = "cardinality" /\ validator.DataSource # "cardinality"
    \/ validator.Type # "cardinality" /\ validator.DataSource # "labels"

C22_FailingRules ==
    {i \in 1..Len(ev.rules) :
        \E k \in 1..Len(ev.rules[i].Validators) :
            C22_Fails(ev.rules[i].Validators[k])}

C22_Min(S) == CHOOSE x \in S : \A y \in S : x <= y

C22_FirstFailing(rule) ==
    rule.Validators[C22_Min({k \in 1..Len(rule.Validators) :
                                C22_Fails(rule.Validators[k])})]

\* C22: evaluating rules on data sources returns an error exactly when some
\* validator of some rule ends in an evaluation error; the error then names
\* the rule id and the validator name of the first such validator and no
\* result is returned, not even of the rules evaluated before; otherwise
\* there is one result per rule.
C22_ErrorNamesRuleAndValidator ==
    (ev.pc = "done") =>
        /\ ev.ret.err <=> C22_FailingRules # {}
        /\ ev.ret.err =>
              LET rule == ev.rules[C22_Min(C22_FailingRules)] IN
              /\ ev.ret.results = <<>>
              /\ ev.ret.msg = <<"failed to evaluate rule", rule.RuleID,
                                "validator", C22_FirstFailing(rule).Name,
                                "failed">>
        /\ ~ev.ret.err => Len(ev.ret.results) = Len(ev.rules)

\* The second rule's second validator failed on rows, after a rule and a
\* validator that evaluated.
C22_Witness ==
    /\ ev.pc = "done"
    /\ ev.ret.err
    /\ Len(ev.rules) = 2
    /\ C22_FailingRules = {2}
    /\ Len(ev.rules[2].Validators) = 2
    /\ ~C22_Fails(ev.rules[2].Validators[1])
    /\ "labels" \in DOMAIN ev.dataSources
    /\ Len(ev.dataSources.labels) > 0

\* ---- C23
C23_Category(score) ==
    CASE score.num >= 90 * score.den -> "Excellent"
      [] score.num < 90 * score.den /\ score.num >= 75 * score.den -> "Good"
      [] score.num < 75 * score.den /\ score.num >= 50 * score.den ->
            "Needs Improvement"
      [] OTHER -> "Poor"

\* C23: for every score from 0 to 100 the text/JSON formatter, the summary
\* distribution and the multi-job HTML report give the same category:
\* Excellent from 90, Good from 75, Needs Improvement from 50, else Poor.
C23_SameCategoryEverywhere ==
    (ev.pc = "done") =>
        /\ ev.text = C23_Category(ev.score)
        /\ ev.summary = C23_Category(ev.score)
        /\ ev.html = C23_Category(ev.score)

\* ---- C24
C24_OneJob ==
    /\ Len(ev.records) > 0
    /\ \A i \in 1..Len(ev.records) : ev.records[i].Job = ev.records[1].Job

C24_Collected ==
    {<<ev.records[i].Job, ev.records[i].MetricName, ev.records[i].Labels,
       ev.records[i].Cardinality, ev.records[i].LabelCardinality.counts>> :
        i \in 1..Len(ev.records)}

C24_Loaded ==
    {<<ev.loaded[i].Job, ev.loaded[i].MetricName, ev.loaded[i].Labels,
       FormatInt(ev.loaded[i].Cardinality), ev.loaded[i].LabelCardinality.counts>> :
        i \in 1..Len(ev.loaded)}

\* C24: the records of one job, written with WritePerJobFiles and read back
\* with LoadJobMetricReport, are the same set of records: same job, metric
\* name, label list, cardinality and per-label cardinality map.
C24_RoundTrip ==
    (ev.pc = "loaded" /\ C24_OneJob) => C24_Loaded = C24_Collected

\* ---- C30
C30_JobsOf(records) == {records[i].Job : i \in 1..Len(records)}

C30_Lines(records) ==
    LET lines[i \in 0..Len(records)] ==
            IF i = 0 THEN <<>> ELSE lines[i - 1] \o RecordLine(records[i])
    IN lines[Len(records)]

C30_FileOf(job) ==
    LET ofJob(data) == data.Job = job IN
    WrittenHeader \o <<"\n">> \o C30_Lines(SelectSeq(ev.records, ofJob))

\* C30: after WritePerJobFiles every file holds one header and then exactly
\* the records of a single job, and every job whose file could be created
\* has such a file, also when job names differ only in characters that
\* sanitizeJobName replaces.
C30_DistinctJobsDistinctFiles ==
    (ev.pc = "written") =>
        /\ \A path \in DOMAIN ev.files :
              \E job \in C30_JobsOf(ev.records) : ev.files[path] = C30_FileOf(job)
        /\ \A job \in C30_JobsOf(ev.records) :
              sanitizeJobName(job) \notin ev.failedPaths =>
                 \E path \in DOMAIN ev.files : ev.files[path] = C30_FileOf(job)

\* ---- C25
C25_WellFormed(line) ==
    /\ line # HeaderLine
    /\ Len(line) > 0 /\ line[1] # "#"
    /\ Len(Split(line, "|")) \in {4, 5}
    /\ \A i \in 1..Len(Split(line, "|")[4]) : Split(line, "|")[4][i] \in Range(Digits)
    /\ Len(Split(line, "|")[4]) > 0

C25_Expected == SelectSeq(ev.file, C25_WellFormed)

\* C25: LoadJobMetricReport returns one record for every well-formed record
\* line of the file, in the order of the lines, whether or not the file
\* starts with a header line, and nothing for the header and the lines with
\* a wrong column count or a cardinality that is not a number.
C25_EveryWellFormedLineIsReturned ==
    (ev.pc = "done") =>
        /\ Len(ev.data) = Len(C25_Expected)
        /\ \A i \in 1..Len(ev.data) : ev.data[i] = LineRecord(C25_Expected[i])

\* ---- C27
\* C27: whatever retry count was set, zero and negative ones included, a
\* returned doRequestWithRetry has made at least one transport attempt and
\* hands back exactly one of a response and an error.
C27_OneAttemptOneReturn ==
    (ev.pc = "returned") =>
        /\ Len(ev.history) >= 1
        /\ ev.ret.response # ev.ret.error

\* ---- C29
C29_UsesMetrics(validator) == validator.Type \in {"labels", "label_count", "format"}

C29_Mixed(rule) ==
    /\ \E i \in DOMAIN rule.Validators : rule.Validators[i].Type = "cardinality"
    /\ \E i \in DOMAIN rule.Validators : C29_UsesMetrics(rule.Validators[i])

\* The rule with another validator in the place of each one that is not a
\* cardinality validator.
C29_Variants(rule) ==
    {[rule EXCEPT !.Validators =
         [i \in DOMAIN rule.Validators |->
             IF C29_UsesMetrics(rule.Validators[i]) THEN other
             ELSE rule.Validators[i]]] :
        other \in {v \in Validators : C29_UsesMetrics(v)}}

C29_Evaluated(rule) == evaluateRule(rule, ev.dataSources)

C29_Score(result) == CalculateInstrumentationScore(<<result>>)

C29_InScope ==
    /\ ev.pc = "done"
    /\ ~ev.ret.err
    /\ C29_Mixed(ev.rule)
    /\ ev.ret.result.TotalCardinality > 0

C28_Phase1Started(m, j) == t1[m][j].pc # "idle"

C28_Phase1Running(m, j) == t1[m][j].pc \in {"cardinality", "labels", "lock", "append"}

\* A phase-2 goroutine of the metric has been started.
C28_Phase2Started(m, j) == t2[m][j].pc # "idle"

\* C28: for each metric, job discovery has returned before any cardinality
\* or label fetch of the metric starts, and every cardinality and label
\* fetch of the metric has completed before its first label-cardinality
\* fetch starts.
C28_PhasesOrderedPerMetric ==
    \A m \in MetricIds :
        /\ \A j \in JobIds :
              C28_Phase1Started(m, j) =>
                 /\ mt[m].pc \notin {"idle", "jobs"}
                 /\ j \in Range(mt[m].jobNames)
        /\ (\E j \in JobIds : C28_Phase2Started(m, j)) =>
              /\ \A j \in Range(mt[m].jobNames) : t1[m][j].pc = "done"
              /\ \A j \in JobIds : ~C28_Phase1Running(m, j)

\* Nothing orders two metrics: one is at a label-cardinality fetch while
\* the other is still discovering its jobs.
C28_Witness ==
    \E m, n \in MetricIds :
        /\ m # n
        /\ \E j \in JobIds : t2[m][j].pc = "labelCardinality"
        /\ mt[n].pc = "jobs"

\* ---- C26
C26_TaskFinished(t) == t.pc \in {"idle", "done"}

\* Nothing of the run is left: no goroutine is alive, no slot is held, no
\* wait group is open, no mutex is locked.
C26_AllFinished ==
    /\ sem = 0 /\ wg = 0 /\ ~errorsMu /\ ~dataMu
    /\ \A m \in MetricIds :
          /\ C26_TaskFinished(mt[m])
          /\ mt[m].sem = 0 /\ mt[m].wg = 0
          /\ mt[m].labelCardSem = 0 /\ mt[m].wg2 = 0
          /\ \A j \in JobIds : C26_TaskFinished(t1[m][j]) /\ C26_TaskFinished(t2[m][j])

\* getJobMetricDataForMetric has returned for the metric: its two
\* semaphores are empty and its goroutines have finished.
C26_MetricReleased(m) ==
    mt[m].pc \in {"lockErrors", "appendErrors", "lockData", "appendData", "exit"} =>
        /\ mt[m].sem = 0 /\ mt[m].wg = 0
        /\ mt[m].labelCardSem = 0 /\ mt[m].wg2 = 0
        /\ \A j \in JobIds : C26_TaskFinished(t1[m][j]) /\ C26_TaskFinished(t2[m][j])

\* C26: with every remote call returning, CollectMetrics returns for every
\* width configuration; when it has returned every spawned task has
\* finished and every semaphore slot has been released, and a metric's
\* function returns only with its own semaphores empty.
C26_CollectionTerminates ==
    /\ <>(mainPc = "done")
    /\ [](mainPc = "done" => C26_AllFinished)
    /\ [](\A m \in MetricIds : C26_MetricReleased(m))

\* A returned run in which every semaphore had width one and was waited
\* for: two metrics, the first with two jobs, label cardinality collected.
C26_Witness ==
    /\ mainPc = "done" /\ ~retErr
    /\ maxConcurrentMetrics = 1 /\ maxConcurrentJobs = 1
    /\ maxConcurrentLabelCardinality = 1
    /\ collectLabelCardinality
    /\ Len(metricNames) = 2
    /\ Len(retData) = 3

====
